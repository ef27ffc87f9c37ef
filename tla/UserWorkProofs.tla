--------------------------- MODULE UserWorkProofs ---------------------------
(***************************************************************************)
(* That what the user has not committed is kept: no start loses the        *)
(* changes that it moves by the stash (StashTransfer), for any number of   *)
(* starts and changes, and no teardown takes the user's text in a worktree *)
(* for a generated file (WorktreeFiles), for any number of calls, changes  *)
(* and entries, but for what she changed in what BranchBox wrote there.    *)
(***************************************************************************)
EXTENDS StashTransfer, WorktreeFiles, SequenceTheorems, FiniteSetTheorems, TLAPS

---------------------------------------------------------------------------
(* The stash.                                                              *)

Entries(s) == UNION {s[i] : i \in DOMAIN s}

LEMMA NewEntry ==
  ASSUME NEW S, NEW s \in Seq(SUBSET S), NEW e \in SUBSET S
  PROVE  /\ <<e>> \o s \in Seq(SUBSET S)
         /\ <<e>> \o s # <<>>
         /\ Head(<<e>> \o s) = e
         /\ Entries(<<e>> \o s) = e \cup Entries(s)
<1> DEFINE t == <<e>> \o s
<1>1. /\ t \in Seq(SUBSET S) /\ Len(t) = 1 + Len(s) /\ t # <<>> /\ t[1] = e
      /\ \A i \in 1..Len(s) : t[i + 1] = s[i]
  BY SMT
<1>2. Head(t) = e
  BY <1>1, SMT
<1>3. DOMAIN t = 1..(1 + Len(s)) /\ DOMAIN s = 1..Len(s)
  BY <1>1, SMT
<1>4. ASSUME NEW i \in 1..(1 + Len(s)) PROVE i = 1 \/ (i - 1 \in 1..Len(s) /\ t[i] = s[i - 1])
  BY <1>1, <1>4, SMT
<1>5. 1 \in 1..(1 + Len(s)) /\ \A i \in 1..Len(s) : i + 1 \in 1..(1 + Len(s))
  BY SMT
<1>6. Entries(t) \subseteq e \cup Entries(s)
  BY <1>1, <1>3, <1>4 DEF Entries
<1>7. e \cup Entries(s) \subseteq Entries(t)
  BY <1>1, <1>3, <1>5 DEF Entries
<1> QED  BY <1>1, <1>2, <1>6, <1>7

LEMMA PoppedEntry ==
  ASSUME NEW S, NEW s \in Seq(SUBSET S), 0 < Len(s)
  PROVE  LET t == SubSeq(s, 1, 0) \o SubSeq(s, 2, Len(s))
         IN  /\ t \in Seq(SUBSET S)
             /\ s[1] \in SUBSET S
             /\ Head(s) = s[1]
             /\ Entries(s) = s[1] \cup Entries(t)
<1> DEFINE t == SubSeq(s, 1, 0) \o SubSeq(s, 2, Len(s))
<1>1. t = Tail(s)
  <2>1. SubSeq(s, 1, 0) = <<>>
    BY SMT
  <2>2. SubSeq(s, 2, Len(s)) = Tail(s)
    BY SMT
  <2> QED  BY <2>1, <2>2, SMT
<1>2. /\ Tail(s) \in Seq(SUBSET S) /\ Len(Tail(s)) = Len(s) - 1
      /\ \A i \in 1..(Len(s) - 1) : Tail(s)[i] = s[i + 1]
      /\ s[1] \in SUBSET S /\ Head(s) = s[1]
  BY SMT
<1>3. DOMAIN Tail(s) = 1..(Len(s) - 1) /\ DOMAIN s = 1..Len(s)
  BY <1>2, SMT
<1>4. ASSUME NEW i \in 1..Len(s) PROVE i = 1 \/ (i - 1 \in 1..(Len(s) - 1) /\ s[i] = Tail(s)[i - 1])
  BY <1>2, <1>4, SMT
<1>5. 1 \in 1..Len(s) /\ \A i \in 1..(Len(s) - 1) : i + 1 \in 1..Len(s)
  BY SMT
<1>6. Entries(s) \subseteq s[1] \cup Entries(Tail(s))
  BY <1>3, <1>4 DEF Entries
<1>7. s[1] \cup Entries(Tail(s)) \subseteq Entries(s)
  BY <1>2, <1>3, <1>5 DEF Entries
<1> QED  BY <1>1, <1>2, <1>6, <1>7

LEMMA StashedEntries == Stashed = Entries(stash) /\ Stashed' = Entries(stash')
BY DEF Stashed, Entries

LEMMA TopEntry ==
  ASSUME StashTypeOK
  PROVE  Top \subseteq Stashed /\ Top \in SUBSET Changes
<1>1. CASE stash = <<>>
  BY <1>1 DEF Top
<1>2. CASE stash # <<>>
  <2>1. 0 < Len(stash) /\ stash \in Seq(SUBSET Changes)
    BY <1>2, SMT DEF StashTypeOK
  <2>2. stash[1] \in SUBSET Changes /\ Head(stash) = stash[1] /\ stash[1] \subseteq Entries(stash)
    BY <2>1, PoppedEntry
  <2> QED  BY <1>2, <2>2, StashedEntries DEF Top
<1> QED  BY <1>1, <1>2

(* What git's pop of stash@{0} and its push do to what is stashed. *)
LEMMA Popped ==
  ASSUME StashTypeOK, 0 < Len(stash), stash' = Without(0)
  PROVE  /\ stash' \in Seq(SUBSET Changes)
         /\ stash[1] = Top /\ stash[1] \in SUBSET Changes
         /\ Stashed = stash[1] \cup Stashed'
<1>1. stash \in Seq(SUBSET Changes)
  BY DEF StashTypeOK
<1>2. stash' = SubSeq(stash, 1, 0) \o SubSeq(stash, 2, Len(stash)) /\ stash # <<>>
  BY <1>1, SMT DEF Without
<1>3. /\ stash' \in Seq(SUBSET Changes) /\ stash[1] \in SUBSET Changes
      /\ Head(stash) = stash[1] /\ Entries(stash) = stash[1] \cup Entries(stash')
  <2> DEFINE t == SubSeq(stash, 1, 0) \o SubSeq(stash, 2, Len(stash))
  <2>1. /\ t \in Seq(SUBSET Changes) /\ stash[1] \in SUBSET Changes
        /\ Head(stash) = stash[1] /\ Entries(stash) = stash[1] \cup Entries(t)
    BY <1>1, PoppedEntry
  <2>2. stash' = t
    BY <1>2
  <2> HIDE DEF t
  <2> QED  BY <2>1, <2>2 DEF Entries
<1> QED  BY <1>2, <1>3, StashedEntries DEF Top

LEMMA Pushed ==
  ASSUME StashTypeOK, NEW e \in SUBSET Changes, stash' = <<e>> \o stash
  PROVE  /\ stash' \in Seq(SUBSET Changes)
         /\ Top' = e
         /\ Stashed' = e \cup Stashed
<1>1. /\ stash' \in Seq(SUBSET Changes) /\ stash' # <<>> /\ Head(stash') = e
      /\ Entries(stash') = e \cup Entries(stash)
  <2> DEFINE t == <<e>> \o stash
  <2>1. stash \in Seq(SUBSET Changes)
    BY DEF StashTypeOK
  <2>2. /\ t \in Seq(SUBSET Changes) /\ t # <<>> /\ Head(t) = e
        /\ Entries(t) = e \cup Entries(stash)
    BY <2>1, NewEntry
  <2>3. stash' = t
    OBVIOUS
  <2> HIDE DEF t
  <2> QED  BY <2>2, <2>3 DEF Entries
<1> QED  BY <1>1, StashedEntries DEF Top

---------------------------------------------------------------------------
(* Types, and that no change vanishes.                                     *)

LEMMA StepNames ==
    /\ CaptureSteps \subseteq Steps
    /\ \A s \in {"idle", "lookBefore", "status", "push", "lookAfter", "list", "setup", "apply", "done", "failed"} :
          s \in Steps
BY DEF Steps, CaptureSteps

(* What is stashed is not in the checkout, and counts as made. *)
ApartInv ==
    /\ checkout \cup Stashed \subseteq made
    /\ checkout \cap Stashed = {}

LEMMA Goes ==
  ASSUME StashTypeOK, NEW f \in Features, NEW step \in Steps, Goto(f, step)
  PROVE  /\ at' \in [Features -> Steps]
         /\ at'[f] = step
         /\ \A g \in Features : g # f => at'[g] = at[g]
BY DEF StashTypeOK, Goto

LEMMA SaveStep ==
  ASSUME StashTypeOK, ApartInv, ChangesKept, NEW e \in SUBSET checkout, stash' = <<e>> \o stash, checkout' = checkout \ e,
         UNCHANGED <<work, made>>
  PROVE  stash' \in Seq(SUBSET Changes) /\ ApartInv' /\ ChangesKept'
<1>1. e \in SUBSET Changes
  BY DEF StashTypeOK
<1>2. stash' \in Seq(SUBSET Changes) /\ Stashed' = e \cup Stashed
  BY <1>1, Pushed
<1>3. InWorktrees' = InWorktrees
  BY DEF InWorktrees
<1> QED  BY <1>2, <1>3 DEF ApartInv, ChangesKept

LEMMA PopStep ==
  ASSUME StashTypeOK, ApartInv, ChangesKept, NEW f \in Features, Apply(f), ref[f] # NoRef
  PROVE  /\ stash' \in Seq(SUBSET Changes) /\ work' \in [Features -> SUBSET Changes]
         /\ work'[f] = work[f] \cup Top
         /\ \A g \in Features : g # f => work'[g] = work[g]
         /\ ApartInv' /\ ChangesKept'
<1>1. ref[f] = 0
  BY DEF StashTypeOK
<1>2. 0 < Len(stash) /\ stash' = Without(0) /\ work' = [work EXCEPT ![f] = work[f] \cup stash[1]]
  BY <1>1, SMT DEF Apply
<1>3. /\ stash' \in Seq(SUBSET Changes) /\ stash[1] = Top /\ stash[1] \in SUBSET Changes
      /\ Stashed = stash[1] \cup Stashed'
  BY <1>2, Popped
<1>4. /\ work' \in [Features -> SUBSET Changes] /\ work'[f] = work[f] \cup Top
      /\ \A g \in Features : g # f => work'[g] = work[g]
  BY <1>2, <1>3 DEF StashTypeOK
<1>5. InWorktrees' = InWorktrees \cup Top
  BY <1>4 DEF InWorktrees
<1> QED  BY <1>3, <1>4, <1>5 DEF ApartInv, ChangesKept, Apply

LEMMA KeptStep ==
  ASSUME StashTypeOK, ApartInv, ChangesKept, [NextStash]_stashVars
  PROVE  StashTypeOK' /\ ApartInv' /\ ChangesKept'
<1> DEFINE Kept == StashTypeOK' /\ ApartInv' /\ ChangesKept'
<1>1. ASSUME UNCHANGED <<checkout, stash, work, made, taken>>, at' \in [Features -> Steps],
             before' \in [Features -> SUBSET Changes], ref' \in [Features -> {NoRef, 0}], warned' \subseteq Features
      PROVE  Kept
  BY <1>1 DEF StashTypeOK, ApartInv, ChangesKept, Stashed, InWorktrees
<1>2. ASSUME NEW f \in Features, Begin(f) \/ ShowStatus(f) \/ LookAfter(f) \/ Setup(f) \/ CaptureFails(f)
                                 \/ SetupFails(f) \/ ApplyFails(f) \/ Crash(f)
      PROVE  Kept
  <2>1. /\ UNCHANGED <<checkout, stash, work, before, ref, made, taken>>
        /\ warned' \in {warned, warned \cup {f}, warned \ {f}}
        /\ \E step \in Steps : Goto(f, step)
    BY <1>2, StepNames
    DEF Begin, ShowStatus, LookAfter, Setup, CaptureFails, SetupFails, ApplyFails, Crash
  <2> QED  BY <1>1, <2>1, Goes DEF StashTypeOK
<1>3. ASSUME NEW f \in Features, LookBefore(f) \/ List(f) PROVE Kept
  <2>1. UNCHANGED <<checkout, stash, work, warned, made, taken>> /\ at' \in [Features -> Steps]
    BY <1>3, StepNames, Goes DEF LookBefore, List
  <2>2. before' \in [Features -> SUBSET Changes] /\ ref' \in [Features -> {NoRef, 0}]
    BY <1>3, TopEntry DEF LookBefore, List, StashTypeOK
  <2> QED  BY <1>1, <2>1, <2>2 DEF StashTypeOK
<1>4. ASSUME NEW f \in Features, Push(f) PROVE Kept
  <2>1. UNCHANGED <<work, before, ref, warned, made>> /\ at' \in [Features -> Steps]
    BY <1>4, StepNames, Goes DEF Push
  <2>2. CASE UNCHANGED <<checkout, stash, taken>>
    BY <1>1, <2>1, <2>2 DEF StashTypeOK
  <2>3. CASE \E saved \in SUBSET checkout : /\ stash' = <<saved>> \o stash /\ checkout' = checkout \ saved
                                        /\ taken' = [taken EXCEPT ![f] = saved]
    <3>1. PICK saved \in SUBSET checkout : /\ stash' = <<saved>> \o stash /\ checkout' = checkout \ saved
                                       /\ taken' = [taken EXCEPT ![f] = saved]
      BY <2>3
    <3>2. stash' \in Seq(SUBSET Changes) /\ ApartInv' /\ ChangesKept'
      BY <2>1, <3>1, SaveStep
    <3>3. checkout' \subseteq Changes /\ taken' \in [Features -> SUBSET Changes]
      BY <3>1 DEF StashTypeOK
    <3> QED  BY <2>1, <3>2, <3>3 DEF StashTypeOK
  <2> QED  BY <1>4, <2>2, <2>3 DEF Push
<1>5. ASSUME NEW f \in Features, Apply(f) PROVE Kept
  <2>1. UNCHANGED <<checkout, before, ref, warned, made, taken>> /\ at' \in [Features -> Steps]
    BY <1>5, StepNames, Goes DEF Apply
  <2>2. CASE ref[f] = NoRef
    BY <1>1, <1>5, <2>1, <2>2 DEF Apply, StashTypeOK
  <2>3. CASE ref[f] # NoRef
    BY <1>5, <2>1, <2>3, PopStep DEF StashTypeOK
  <2> QED  BY <2>2, <2>3
<1>6. ASSUME NEW c \in Changes, MakeChange(c) PROVE Kept
  <2>1. Stashed' = Stashed /\ InWorktrees' = InWorktrees
    BY <1>6 DEF MakeChange, Stashed, InWorktrees
  <2> QED  BY <1>6, <2>1 DEF MakeChange, StashTypeOK, ApartInv, ChangesKept
<1>7. CASE CommitChanges
  <2>1. Stashed' = Stashed /\ InWorktrees' = InWorktrees
    BY <1>7 DEF CommitChanges, Stashed, InWorktrees
  <2> QED  BY <1>7, <2>1 DEF CommitChanges, StashTypeOK, ApartInv, ChangesKept
<1>8. CASE UserStash
  <2>1. /\ stash' = <<checkout>> \o stash
        /\ checkout' = checkout \ checkout
        /\ UNCHANGED <<work, at, before, ref, warned, made, taken>>
    BY <1>8 DEF UserStash
  <2>2. stash' \in Seq(SUBSET Changes) /\ ApartInv' /\ ChangesKept'
    BY <2>1, SaveStep
  <2> QED  BY <2>1, <2>2 DEF StashTypeOK
<1>9. CASE UNCHANGED stashVars
  BY <1>1, <1>9 DEF stashVars, StashTypeOK
<1> QED  BY <1>2, <1>3, <1>4, <1>5, <1>6, <1>7, <1>8, <1>9 DEF NextStash

LEMMA KeptInvariance == SpecStash => [](StashTypeOK /\ ApartInv /\ ChangesKept)
<1>1. InitStash => StashTypeOK /\ ApartInv /\ ChangesKept
  <2> SUFFICES ASSUME InitStash PROVE StashTypeOK /\ ApartInv /\ ChangesKept
    OBVIOUS
  <2>1. Stashed = {}
    BY SMT DEF InitStash, Stashed
  <2>2. stash \in Seq(SUBSET Changes) /\ at \in [Features -> Steps]
    BY StepNames DEF InitStash
  <2> QED  BY <2>1, <2>2 DEF InitStash, StashTypeOK, ApartInv, ChangesKept
<1> QED  BY <1>1, KeptStep, PTL DEF SpecStash

(* The variables keep their types. *)
THEOREM Types == SpecStash => []StashTypeOK
BY KeptInvariance, PTL

(* Whatever fails or dies, and with starts beside each other too, a change *)
(* that was made and not committed is somewhere.                           *)
THEOREM NothingVanishes == SpecStash => []ChangesKept
BY KeptInvariance, PTL

---------------------------------------------------------------------------
(* One start after the other.                                              *)

Rests(f) == at[f] \in {"idle", "done", "failed"}

LoneInv == \A f, g \in Features : ~Rests(f) /\ ~Rests(g) => f = g

(* A start's own entry stays on top of the stash until it is popped, and   *)
(* what is noted of the stash leads to it.                                 *)
Follows(f) ==
    /\ work[f] \subseteq taken[f]
    /\ at[f] \in {"idle", "lookBefore", "status", "push"} => taken[f] = {}
    /\ at[f] \in {"idle", "lookBefore", "status", "push", "lookAfter", "list"} => ref[f] = NoRef
    /\ at[f] \in {"status", "push"} => before[f] = Top
    /\ at[f] = "lookAfter" => IF taken[f] = {} THEN Top = before[f]
                                               ELSE Top = taken[f] /\ Top # before[f]
    /\ at[f] = "list" => Top = taken[f]
    /\ at[f] \in {"setup", "apply"} => IF ref[f] = NoRef THEN taken[f] = {} \/ f \in warned
                                                         ELSE Top = taken[f]
    /\ at[f] = "done" => taken[f] \subseteq work[f] \/ f \in warned

FollowInv == LoneInv /\ \A f \in Features : Follows(f)

(* A start that rests keeps to this, whatever becomes of the stash. *)
LEMMA RestsFollow ==
  ASSUME NEW f \in Features, Rests(f), Follows(f), at'[f] = at[f], work'[f] = work[f], taken'[f] = taken[f],
         ref'[f] = ref[f], f \in warned' <=> f \in warned
  PROVE  Follows(f)'
BY DEF Follows, Rests

(* It is enough that the start that takes a step follows. *)
LEMMA OneFollows ==
  ASSUME FollowInv, NEW f \in Features, Resting \/ ~Rests(f), Follows(f)',
         \A g \in Features : g # f => /\ at'[g] = at[g] /\ work'[g] = work[g] /\ taken'[g] = taken[g]
                                      /\ ref'[g] = ref[g] /\ (g \in warned' <=> g \in warned)
  PROVE  FollowInv'
<1>1. ASSUME NEW g \in Features, g # f PROVE Rests(g)
  BY <1>1 DEF Resting, Rests, FollowInv, LoneInv
<1>2. ASSUME NEW g \in Features, g # f PROVE Follows(g)' /\ Rests(g)'
  BY <1>1, <1>2, RestsFollow DEF FollowInv, Rests
<1>3. LoneInv'
  BY <1>2 DEF LoneInv
<1> QED  BY <1>2, <1>3 DEF FollowInv

(* What the user does leaves the stash under a start's entry alone. *)
LEMMA UserFollows ==
  ASSUME FollowInv, stash' = stash \/ Resting, UNCHANGED <<work, at, before, ref, warned, taken>>
  PROVE  FollowInv'
<1>1. ASSUME NEW f \in Features PROVE Follows(f)'
  <2>1. CASE Rests(f)
    BY <2>1, RestsFollow DEF FollowInv
  <2>2. CASE ~Rests(f)
    BY <2>2 DEF FollowInv, Follows, Rests, Resting, Top
  <2> QED  BY <2>1, <2>2
<1> QED  BY <1>1 DEF FollowInv, LoneInv, Rests

LEMMA PushFollows ==
  ASSUME StashTypeOK, ApartInv, FollowInv, NEW f \in Features, Push(f)
  PROVE  FollowInv'
<1>1. /\ at[f] = "push" /\ at'[f] = "lookAfter" /\ \A g \in Features : g # f => at'[g] = at[g]
      /\ UNCHANGED <<work, before, ref, warned, made>>
      /\ taken[f] = {} /\ ref[f] = NoRef /\ before[f] = Top /\ work[f] = {}
  BY Goes, StepNames DEF Push, FollowInv, Follows
<1>2. CASE UNCHANGED <<checkout, stash, taken>>
  <2>1. Follows(f)'
    BY <1>1, <1>2 DEF Follows, Top
  <2> QED  BY <1>1, <1>2, <2>1, OneFollows DEF Rests
<1>3. CASE checkout \ Excluded # {}
  <2> DEFINE saved == checkout \ Excluded
  <2>1. /\ saved \in SUBSET Changes /\ saved # {} /\ saved \subseteq checkout
        /\ stash' = <<saved>> \o stash /\ taken' = [taken EXCEPT ![f] = saved]
    BY <1>1, <1>3 DEF Push, StashTypeOK
  <2>2. Top' = saved
    BY <2>1, Pushed
  <2>3. saved # before[f]
    <3>1. before[f] \subseteq Stashed
      BY <1>1, TopEntry
    <3> QED  BY <2>1, <3>1 DEF ApartInv
  <2>4. taken'[f] = saved /\ \A g \in Features : g # f => taken'[g] = taken[g]
    BY <2>1 DEF StashTypeOK
  <2> HIDE DEF saved
  <2>5. Follows(f)'
    BY <1>1, <2>1, <2>2, <2>3, <2>4 DEF Follows
  <2> QED  BY <1>1, <2>4, <2>5, OneFollows DEF Rests
<1> QED  BY <1>2, <1>3 DEF Push

LEMMA FollowStep ==
  ASSUME ~Beside, StashTypeOK, ApartInv, ChangesKept, FollowInv, [NextStash]_stashVars
  PROVE  FollowInv'
<1>1. ASSUME NEW f \in Features, Begin(f) PROVE FollowInv'
  <2>1. /\ Resting /\ at[f] = "idle" /\ at'[f] = "lookBefore" /\ \A g \in Features : g # f => at'[g] = at[g]
        /\ UNCHANGED <<stash, work, before, ref, warned, taken>>
    BY <1>1, Goes, StepNames DEF Begin
  <2>2. Follows(f)'
    BY <2>1 DEF FollowInv, Follows
  <2> QED  BY <2>1, <2>2, OneFollows
<1>2. ASSUME NEW f \in Features, LookBefore(f) PROVE FollowInv'
  <2>1. /\ at[f] = "lookBefore" /\ at'[f] = "status" /\ \A g \in Features : g # f => at'[g] = at[g]
        /\ UNCHANGED <<stash, work, ref, warned, taken>> /\ before'[f] = Top
    BY <1>2, Goes, StepNames DEF LookBefore, StashTypeOK
  <2>2. Follows(f)'
    BY <2>1 DEF FollowInv, Follows, Top
  <2> QED  BY <2>1, <2>2, OneFollows DEF Rests
<1>3. ASSUME NEW f \in Features, ShowStatus(f) PROVE FollowInv'
  <2>1. /\ at[f] = "status" /\ at'[f] \in {"setup", "push"} /\ \A g \in Features : g # f => at'[g] = at[g]
        /\ UNCHANGED <<stash, work, before, ref, warned, taken>>
    BY <1>3, Goes, StepNames DEF ShowStatus
  <2>2. Follows(f)'
    BY <2>1 DEF FollowInv, Follows, Top
  <2> QED  BY <2>1, <2>2, OneFollows DEF Rests
<1>4. ASSUME NEW f \in Features, LookAfter(f) PROVE FollowInv'
  <2>1. /\ at[f] = "lookAfter" /\ \A g \in Features : g # f => at'[g] = at[g]
        /\ at'[f] = IF Top \in {{}, before[f]} THEN "setup" ELSE "list"
        /\ UNCHANGED <<stash, work, before, ref, warned, taken>>
    BY <1>4, Goes, StepNames DEF LookAfter
  <2>2. Follows(f)'
    BY <2>1 DEF FollowInv, Follows, Top
  <2> QED  BY <2>1, <2>2, OneFollows DEF Rests
<1>5. ASSUME NEW f \in Features, List(f) PROVE FollowInv'
  <2>1. /\ at[f] = "list" /\ at'[f] = "setup" /\ \A g \in Features : g # f => at'[g] = at[g]
        /\ UNCHANGED <<stash, work, before, warned, taken>>
        /\ ref'[f] = 0 /\ \A g \in Features : g # f => ref'[g] = ref[g]
    BY <1>5, Goes, StepNames DEF List, StashTypeOK
  <2>2. Follows(f)'
    BY <2>1, StashTransferAssumption DEF FollowInv, Follows, Top
  <2> QED  BY <2>1, <2>2, OneFollows DEF Rests
<1>6. ASSUME NEW f \in Features, CaptureFails(f) PROVE FollowInv'
  <2>1. /\ at[f] \in CaptureSteps /\ at'[f] = "setup" /\ \A g \in Features : g # f => at'[g] = at[g]
        /\ UNCHANGED <<stash, work, before, ref, taken>> /\ warned' = warned \cup {f}
    BY <1>6, Goes, StepNames DEF CaptureFails
  <2>2. Follows(f)'
    BY <2>1 DEF FollowInv, Follows, CaptureSteps
  <2> QED  BY <2>1, <2>2, OneFollows DEF Rests, CaptureSteps
<1>7. ASSUME NEW f \in Features, Setup(f) PROVE FollowInv'
  <2>1. /\ at[f] = "setup" /\ at'[f] = "apply" /\ \A g \in Features : g # f => at'[g] = at[g]
        /\ UNCHANGED <<stash, work, before, ref, warned, taken>>
    BY <1>7, Goes, StepNames DEF Setup
  <2>2. Follows(f)'
    BY <2>1 DEF FollowInv, Follows, Top
  <2> QED  BY <2>1, <2>2, OneFollows DEF Rests
<1>8. ASSUME NEW f \in Features, SetupFails(f) \/ Crash(f) PROVE FollowInv'
  <2>1. /\ ~Rests(f) /\ at'[f] = "failed" /\ \A g \in Features : g # f => at'[g] = at[g]
        /\ UNCHANGED <<stash, work, before, ref, taken>> /\ warned' = warned \ {f}
    BY <1>8, Goes, StepNames DEF SetupFails, Crash, Rests, CaptureSteps
  <2>2. Follows(f)'
    BY <2>1 DEF FollowInv, Follows
  <2> QED  BY <2>1, <2>2, OneFollows
<1>9. ASSUME NEW f \in Features, Apply(f) PROVE FollowInv'
  <2>1. /\ at[f] = "apply" /\ at'[f] = "done" /\ \A g \in Features : g # f => at'[g] = at[g]
        /\ UNCHANGED <<ref, warned, taken>>
    BY <1>9, Goes, StepNames DEF Apply
  <2>2. CASE ref[f] = NoRef
    <3>1. Follows(f)'
      BY <1>9, <2>1, <2>2 DEF Apply, FollowInv, Follows
    <3> QED  BY <1>9, <2>1, <2>2, <3>1, OneFollows DEF Rests, Apply
  <2>3. CASE ref[f] # NoRef
    <3>1. work'[f] = work[f] \cup Top /\ \A g \in Features : g # f => work'[g] = work[g]
      BY <1>9, <2>3, PopStep
    <3>2. Follows(f)'
      BY <2>1, <2>3, <3>1 DEF FollowInv, Follows
    <3> QED  BY <2>1, <3>1, <3>2, OneFollows DEF Rests
  <2> QED  BY <2>2, <2>3
<1>10. ASSUME NEW f \in Features, ApplyFails(f) PROVE FollowInv'
  <2>1. /\ at[f] = "apply" /\ at'[f] = "done" /\ \A g \in Features : g # f => at'[g] = at[g]
        /\ UNCHANGED <<stash, work, before, ref, taken>> /\ warned' = warned \cup {f}
    BY <1>10, Goes, StepNames DEF ApplyFails
  <2>2. Follows(f)'
    BY <2>1 DEF FollowInv, Follows
  <2> QED  BY <2>1, <2>2, OneFollows DEF Rests
<1>11. ASSUME (\E c \in Changes : MakeChange(c)) \/ CommitChanges \/ UserStash \/ UNCHANGED stashVars
      PROVE FollowInv'
  BY <1>11, UserFollows DEF MakeChange, CommitChanges, UserStash, stashVars
<1> QED
  BY <1>1, <1>2, <1>3, <1>4, <1>5, <1>6, <1>7, <1>8, <1>9, <1>10, <1>11, PushFollows DEF NextStash

LEMMA FollowInvariance == ASSUME ~Beside PROVE SpecStash => []FollowInv
<1>1. InitStash => FollowInv
  BY DEF InitStash, FollowInv, LoneInv, Rests, Follows
<1>2. StashTypeOK /\ ApartInv /\ ChangesKept /\ FollowInv /\ [NextStash]_stashVars => FollowInv'
  BY FollowStep
<1> QED  BY <1>1, <1>2, KeptInvariance, PTL DEF SpecStash

(* With starts one after the other, and whatever else is on the stash, a   *)
(* worktree gets no change but what its own start took.                    *)
THEOREM NothingForeign == ASSUME ~Beside PROVE SpecStash => []OwnChangesOnly
<1>1. FollowInv => OwnChangesOnly
  BY DEF FollowInv, Follows, OwnChangesOnly
<1> QED  BY <1>1, FollowInvariance, PTL

(* And a start that ends well has delivered what it took, or warns.        *)
THEOREM TakenArrives == ASSUME ~Beside PROVE SpecStash => []TakenIsDelivered
<1>1. FollowInv => TakenIsDelivered
  BY DEF FollowInv, Follows, TakenIsDelivered
<1> QED  BY <1>1, FollowInvariance, PTL

---------------------------------------------------------------------------
(* The contents of the files.                                              *)


Owns == {"none", "base", "next", "mine"}
Blocks == {"none", "ours", "edited", "mixed"}

LEMMA PathNames ==
  Paths = {"branchboxEnv", "devcontainerEnv", "config", "extra", "env", "settings", "tasks",
           "oldSpec", "spec", "source"}
BY DEF Paths, Place

LEMMA Places == \A p \in Paths : Place[p] \in 1..10
<1>1. \A p \in Paths : \/ p = "branchboxEnv" \/ p = "devcontainerEnv" \/ p = "config" \/ p = "extra" \/ p = "env"
                       \/ p = "settings" \/ p = "tasks" \/ p = "oldSpec" \/ p = "spec" \/ p = "source"
  BY PathNames
<1> QED  BY <1>1 DEF Place

LEMMA FileContents ==
  /\ \A o \in Owns, b \in Blocks :
       /\ File(o, b) \in Contents
       /\ File(o, b).kind = "file" /\ File(o, b).own = o /\ File(o, b).block = b
  /\ \A c \in Contents : c.kind = "file" => c.own \in Owns /\ c.block \in Blocks /\ c = File(c.own, c.block)
BY DEF Contents, Owns, Blocks, File, Missing, Link

LEMMA LinkContents ==
  /\ Link("main") \in Contents /\ Link("main").kind = "link" /\ Link("main").own = "main" /\ Link("main").block = "none"
  /\ Link("up") \in Contents /\ Link("up").kind = "link" /\ Link("up").own = "up" /\ Link("up").block = "none"
  /\ Link("main") # Link("up")
  /\ Missing \in Contents /\ Missing.kind = "missing" /\ Missing.own = "none" /\ Missing.block = "none"
  /\ \A c \in Contents : \/ c.kind = "file" \/ c = Missing \/ c = Link("main") \/ c = Link("up")
BY DEF Contents, Missing, Link
LEMMA WithBlock ==
  ASSUME NEW c \in Contents, c.kind # "link", c # Missing, NEW b \in Blocks
  PROVE [c EXCEPT !.block = b] = File(c.own, b)
BY FileContents, LinkContents DEF File, Missing, Link


---------------------------------------------------------------------------
(* The types.                                                              *)

\* Only the sync links to the main worktree, only a start to the worktree's
\* .env, and the main worktree holds no links.
LinksInv ==
    /\ \A p \in Paths : tree[p] = Link("main") => p \in Synced
    /\ \A p \in Paths : tree[p] = Link("up") => p = "devcontainerEnv"
    /\ \A p \in Paths : main[p].kind # "link"

FilesInv == TypeOK /\ LinksInv

LEMMA TypeFacts ==
  ASSUME TypeOK
  PROVE  /\ head \in [Paths -> Contents] /\ index \in [Paths -> Contents]
         /\ tree \in [Paths -> Contents] /\ main \in [Paths -> Contents]
         /\ baseline \in [Synced -> Contents]
         /\ edits \in Nat /\ calls \in Nat /\ strategy \in Strategies
BY BoundsAssumption DEF TypeOK

LEMMA SyncedPaths ==
  /\ Synced \subseteq Paths
  /\ "spec" \in Paths \ Synced /\ "oldSpec" \in Paths \ Synced /\ "env" \in Paths \ Synced
  /\ "settings" \in Paths \ Synced /\ "tasks" \in Paths \ Synced /\ "devcontainerEnv" \in Paths \ Synced
  /\ "config" \in Synced /\ "branchboxEnv" \in Paths \ Synced /\ "source" \in Paths \ Synced
BY PathNames DEF Synced

\* A content that is no link has a text of its own.
LEMMA NoLinkOwn ==
  ASSUME NEW c \in Contents, c.kind # "link"
  PROVE  /\ c.own \in Owns
         /\ \A b \in Blocks : File(c.own, b) \in Contents
BY FileContents, LinkContents DEF Owns

LEMMA InitFiles == Init => FilesInv
<1> SUFFICES ASSUME Init PROVE FilesInv
  OBVIOUS
<1> PICK committed \in SUBSET (focus \ {"branchboxEnv", "devcontainerEnv"}) :
        LET has == committed \cup ({"config", "source"} \ focus)
            content == [p \in Paths |-> IF p \in has THEN File("base", "none") ELSE Missing]
        IN /\ head = content /\ index = content /\ tree = content
           /\ main = [p \in Paths |-> IF p \in {"env", "config"} THEN File("base", "none") ELSE content[p]]
  BY DEF Init
<1> DEFINE has == committed \cup ({"config", "source"} \ focus)
           content == [p \in Paths |-> IF p \in has THEN File("base", "none") ELSE Missing]
<1>1. /\ File("base", "none") \in Contents
      /\ File("base", "none").kind = "file"
      /\ Missing \in Contents
      /\ Missing.kind = "missing"
  BY FileContents, LinkContents DEF Owns, Blocks
<1>2. content \in [Paths -> Contents] /\ \A p \in Paths : content[p].kind # "link"
  BY <1>1
<1>3. /\ head = content /\ index = content /\ tree = content
      /\ main = [p \in Paths |-> IF p \in {"env", "config"} THEN File("base", "none") ELSE content[p]]
  OBVIOUS
<1> HIDE DEF content
<1>4. main \in [Paths -> Contents] /\ \A p \in Paths : main[p].kind # "link"
  BY <1>1, <1>2, <1>3
<1>5. {head, index, tree, main} \subseteq [Paths -> Contents]
  BY <1>2, <1>3, <1>4
<1>6. /\ baseline \in [Synced -> Contents]
      /\ pc = "spec"
      /\ strategy \in Strategies
      /\ focus \in Focuses
      /\ edits = 0
      /\ calls = 1
  BY <1>1 DEF Init
<1>7. call \in Calls /\ call # NoCall
  BY DEF Init, Calls, Policies, NoCall
<1>8. edits \in 0..MaxEdits /\ calls \in 1..MaxCalls
  BY <1>6, BoundsAssumption
<1>9. TypeOK
  BY <1>5, <1>6, <1>7, <1>8 DEF TypeOK
<1>10. LinksInv
  BY <1>2, <1>3, <1>4, LinkContents DEF LinksInv
<1> QED  BY <1>9, <1>10 DEF FilesInv

LEMMA KeepsFiles ==
  ASSUME FilesInv,
         head' \in [Paths -> Contents], index' \in [Paths -> Contents],
         tree' \in [Paths -> Contents], main' \in [Paths -> Contents],
         \A p \in Paths : tree'[p] = Link("main") => p \in Synced,
         \A p \in Paths : tree'[p] = Link("up") => p = "devcontainerEnv",
         \A p \in Paths : main'[p].kind # "link",
         baseline' \in [Synced -> Contents],
         pc' \in {"idle", "spec", "env", "sync", "configure", "record", "settings"},
         call' \in Calls, pc' = "idle" <=> call' = NoCall,
         strategy' \in Strategies, focus' = focus,
         edits' \in 0..MaxEdits, calls' \in 1..MaxCalls
  PROVE  FilesInv'
<1>1. TypeOK'
  BY DEF FilesInv, TypeOK
<1>2. LinksInv'
  BY DEF LinksInv
<1> QED  BY <1>1, <1>2 DEF FilesInv


\* A map of contents without links but those of the worktree.
Linked(f) ==
    /\ f \in [Paths -> Contents]
    /\ \A p \in Paths : f[p] = Link("main") => p \in Synced
    /\ \A p \in Paths : f[p] = Link("up") => p = "devcontainerEnv"
Linkless(f) == f \in [Paths -> Contents] /\ \A p \in Paths : f[p].kind # "link"

LEMMA MapsLinked == FilesInv =>
  /\ Linked(tree)
  /\ Linkless(main)
  /\ head \in [Paths -> Contents]
  /\ index \in [Paths -> Contents]
BY TypeFacts DEF FilesInv, LinksInv, Linked, Linkless

LEMMA SetContent ==
  ASSUME NEW f, Linked(f), NEW p \in Paths, NEW c \in Contents, c.kind # "link"
  PROVE  Linked([f EXCEPT ![p] = c])
BY LinkContents DEF Linked

LEMMA SetMain ==
  ASSUME NEW f, Linkless(f), NEW p \in Paths, NEW c \in Contents, c.kind # "link"
  PROVE  Linkless([f EXCEPT ![p] = c])
BY DEF Linkless

LEMMA SetBlock ==
  ASSUME NEW f, Linked(f), NEW p \in Paths, f[p].kind = "file", NEW b \in Blocks
  PROVE  /\ [f EXCEPT ![p].block = b] = [f EXCEPT ![p] = File(f[p].own, b)]
         /\ File(f[p].own, b) \in Contents /\ File(f[p].own, b).kind = "file"
         /\ Linked([f EXCEPT ![p].block = b])
<1>1. f[p] \in Contents /\ f[p].kind # "link" /\ f[p] # Missing
  BY LinkContents DEF Linked
<1>2. [f[p] EXCEPT !.block = b] = File(f[p].own, b)
  BY <1>1, WithBlock
<1>3. [f EXCEPT ![p].block = b] = [f EXCEPT ![p] = [f[p] EXCEPT !.block = b]]
  OBVIOUS
<1>4. File(f[p].own, b) \in Contents /\ File(f[p].own, b).kind = "file"
  BY <1>1, FileContents
<1>5. Linked([f EXCEPT ![p] = File(f[p].own, b)])
  BY <1>4, SetContent
<1> QED  BY <1>2, <1>3, <1>4, <1>5

\* A path that is neither synced nor .devcontainer's .env has no link.
LEMMA PlainPath ==
  ASSUME NEW f, Linked(f), NEW p \in Paths, p \notin Synced, p # "devcontainerEnv"
  PROVE  f[p] \in Contents /\ f[p].kind # "link" /\ (f[p] # Missing => f[p].kind = "file")
BY LinkContents DEF Linked

LEMMA KeepsMaps ==
  ASSUME FilesInv,
         head' \in [Paths -> Contents], index' \in [Paths -> Contents],
         Linked(tree'), Linkless(main'),
         baseline' \in [Synced -> Contents],
         pc' \in {"idle", "spec", "env", "sync", "configure", "record", "settings"},
         call' \in Calls, pc' = "idle" <=> call' = NoCall,
         strategy' \in Strategies, focus' = focus,
         edits' \in 0..MaxEdits, calls' \in 1..MaxCalls
  PROVE  FilesInv'
BY KeepsFiles DEF Linked, Linkless

LEMMA EnsureSpecFiles == ASSUME FilesInv, EnsureSpec PROVE Linked(tree') /\ Linkless(main')
<1>1. Linked(tree) /\ Linkless(main)
  BY MapsLinked
<1>2. "spec" \in Paths /\ "oldSpec" \in Paths /\ "ours" \in Blocks
  BY SyncedPaths DEF Blocks
<1>3. CASE tree["spec"] # Missing /\ tree' = [tree EXCEPT !["spec"].block = "ours"] /\ UNCHANGED main
  <2>1. tree["spec"].kind = "file"
    BY <1>1, <1>3, SyncedPaths, PlainPath
  <2> QED  BY <1>1, <1>2, <1>3, <2>1, SetBlock
<1>4. CASE tree["oldSpec"] # Missing /\ tree' = [tree EXCEPT !["oldSpec"].block = "ours"] /\ UNCHANGED main
  <2>1. tree["oldSpec"].kind = "file"
    BY <1>1, <1>4, SyncedPaths, PlainPath
  <2> QED  BY <1>1, <1>2, <1>4, <2>1, SetBlock
<1>5. CASE LET from == IF main["spec"] # Missing THEN "spec" ELSE "oldSpec"
           IN /\ tree' = [tree EXCEPT !["spec"] = File(main[from].own, "ours")]
              /\ main' = [main EXCEPT !["spec"] = Missing]
  <2> DEFINE from == IF main["spec"] # Missing THEN "spec" ELSE "oldSpec"
  <2>1. main[from] \in Contents /\ main[from].kind # "link"
    BY <1>1, <1>2 DEF Linkless
  <2>2. File(main[from].own, "ours") \in Contents
    BY <1>2, <2>1, NoLinkOwn
  <2>3. File(main[from].own, "ours").kind # "link"
    BY DEF File
  <2>4. /\ tree' = [tree EXCEPT !["spec"] = File(main[from].own, "ours")]
        /\ main' = [main EXCEPT !["spec"] = Missing]
    BY <1>5
  <2> HIDE DEF from
  <2>5. Linked(tree')
    BY <1>1, <1>2, <2>2, <2>3, <2>4, SetContent
  <2>6. Linkless(main')
    BY <1>1, <1>2, <2>4, LinkContents, SetMain
  <2> QED  BY <2>5, <2>6
<1> QED  BY <1>3, <1>4, <1>5 DEF EnsureSpec

LEMMA PrepareEnvFiles == ASSUME FilesInv, PrepareEnv PROVE Linked(tree') /\ Linkless(main')
<1>1. Linked(tree) /\ Linkless(main)
  BY MapsLinked
<1>2. File("none", "ours") \in Contents /\ File("none", "ours").kind = "file"
  BY FileContents DEF Owns, Blocks
<1>3. main["env"] \in Contents /\ main["env"].kind # "link"
  BY <1>1, SyncedPaths DEF Linkless
<1>4. File(main["env"].own, "ours") \in Contents
  BY <1>3, NoLinkOwn DEF Blocks
<1>5. File(main["env"].own, "ours").kind = "file"
  BY DEF File
<1>6. tree' = [p \in Paths |->
        CASE p = "branchboxEnv" -> File("none", "ours")
          [] p = "env" /\ main["env"] # Missing -> File(main["env"].own, "ours")
          [] p = "devcontainerEnv" /\ main["env"] # Missing -> Link("up")
          [] OTHER -> tree[p]] /\ main' = main
  BY DEF PrepareEnv
<1>7. \A p \in Paths : \/ tree'[p] = tree[p]
                       \/ tree'[p] = File("none", "ours") \/ tree'[p] = File(main["env"].own, "ours")
                       \/ p = "devcontainerEnv" /\ tree'[p] = Link("up")
  BY <1>6
<1>8. Linked(tree')
  BY <1>1, <1>2, <1>4, <1>5, <1>6, <1>7, LinkContents DEF Linked
<1> QED  BY <1>1, <1>6, <1>8

LEMMA SyncFiles ==
  ASSUME FilesInv, SyncTo
  PROVE  /\ Linked(tree') /\ Linkless(main')
         /\ \A p \in Paths : p \notin Synced => main'[p] = main[p]
<1>1. Linked(tree) /\ Linkless(main)
  BY MapsLinked
<1>2. DOMAIN tree = Paths /\ DOMAIN main = Paths
  BY <1>1 DEF Linked, Linkless
<1>3. \A p \in Paths : \/ tree'[p] = tree[p] \/ tree'[p] = Missing \/ tree'[p] = main[p]
                       \/ p \in Synced /\ tree'[p] = Link("main")
  BY <1>2 DEF SyncTo
<1>4. \A p \in Paths : main'[p] = main[p] \/ (p \in Synced /\ main'[p] = File("none", "none"))
  BY <1>2 DEF SyncTo
<1>5. /\ DOMAIN tree' = Paths
      /\ DOMAIN main' = Paths
      /\ tree' = [p \in Paths |-> tree'[p]]
      /\ main' = [p \in Paths |-> main'[p]]
  BY <1>2 DEF SyncTo
<1>6. File("none", "none") \in Contents /\ File("none", "none").kind = "file"
  BY FileContents DEF Owns, Blocks
<1>7. Linked(tree')
  BY <1>1, <1>3, <1>5, LinkContents DEF Linked, Linkless
<1>8. Linkless(main')
  BY <1>1, <1>4, <1>5, <1>6 DEF Linkless
<1> QED  BY <1>4, <1>7, <1>8


LEMMA ConfigureFiles == ASSUME FilesInv, Configure PROVE Linked(tree') /\ Linkless(main')
<1>1. Linked(tree) /\ Linkless(main) /\ "config" \in Paths /\ "ours" \in Blocks
  BY MapsLinked, PathNames DEF Blocks
<1>2. main' = main
  BY DEF Configure
<1>3. CASE tree["config"].kind = "file" /\ tree' = [tree EXCEPT !["config"].block = "ours"]
  BY <1>1, <1>2, <1>3, SetBlock
<1>4. CASE tree' = tree
  BY <1>1, <1>2, <1>4
<1> QED  BY <1>3, <1>4 DEF Configure

LEMMA SettingsFiles == ASSUME FilesInv, Settings PROVE Linked(tree') /\ Linkless(main')
<1>1. Linked(tree) /\ Linkless(main)
  BY MapsLinked
<1>2. File("none", "ours") \in Contents /\ File("none", "ours").kind = "file"
  BY FileContents DEF Owns, Blocks
<1>3. tree["settings"] \in Contents /\ tree["settings"].kind # "link"
  BY <1>1, SyncedPaths, PlainPath
<1>4. File(tree["settings"].own, "ours") \in Contents
  BY <1>3, NoLinkOwn DEF Blocks
<1>5. File(tree["settings"].own, "ours").kind = "file"
  BY DEF File
<1>6. tree' = [p \in Paths |->
        CASE p = "settings" -> File(tree[p].own, "ours")
          [] p = "tasks" -> File("none", "ours")
          [] OTHER -> tree[p]] /\ main' = main
  BY DEF Settings
<1>7. \A p \in Paths : \/ tree'[p] = tree[p]
                       \/ tree'[p] = File("none", "ours") \/ tree'[p] = File(tree["settings"].own, "ours")
  BY <1>6
<1>8. Linked(tree')
  BY <1>1, <1>2, <1>4, <1>5, <1>6, <1>7, LinkContents DEF Linked
<1> QED  BY <1>1, <1>6, <1>8

LEMMA WriteFiles == ASSUME FilesInv, Write PROVE FilesInv'
<1>1. Linked(tree) /\ Linkless(main) /\ TypeOK
  BY MapsLinked DEF FilesInv
<1>2. NoCall \in Calls /\ call \in Calls /\ (pc # "idle" => call # NoCall)
  BY <1>1 DEF Calls, NoCall, Policies, TypeOK
<1>3. /\ head' = head /\ index' = index /\ strategy' = strategy /\ focus' = focus
      /\ edits' = edits /\ calls' = calls
  BY DEF Write, EnsureSpec, PrepareEnv, Sync, Configure, Record, Settings, files
<1>4. Linked(tree') /\ Linkless(main')
  <2>1. CASE EnsureSpec
    BY <2>1, EnsureSpecFiles
  <2>2. CASE PrepareEnv
    BY <2>2, PrepareEnvFiles
  <2>3. CASE Sync
    <3>1. CASE SyncTo
      BY <3>1, SyncFiles
    <3>2. CASE UNCHANGED <<tree, main>>
      BY <1>1, <3>2
    <3> QED  BY <2>3, <3>1, <3>2 DEF Sync
  <2>4. CASE Configure
    BY <2>4, ConfigureFiles
  <2>5. CASE Record
    BY <1>1, <2>5 DEF Record, files
  <2>6. CASE Settings
    BY <2>6, SettingsFiles
  <2> QED  BY <2>1, <2>2, <2>3, <2>4, <2>5, <2>6 DEF Write
<1>5. baseline' \in [Synced -> Contents]
  <2>1. CASE Record
    BY <1>1, <2>1, SyncedPaths DEF Record, Linked
  <2>2. CASE baseline' = baseline
    BY <1>1, <2>2, TypeFacts
  <2> QED  BY <2>1, <2>2 DEF Write, EnsureSpec, PrepareEnv, Sync, Configure, Settings
<1>6. \/ pc' = "idle" /\ call' = NoCall
      \/ pc # "idle" /\ pc' \in {"env", "sync", "configure", "record", "settings"} /\ call' = call
  BY DEF Write, EnsureSpec, PrepareEnv, Sync, Configure, Record, Settings, End
<1>7. /\ pc' \in {"idle", "spec", "env", "sync", "configure", "record", "settings"}
      /\ call' \in Calls
      /\ (pc' = "idle" <=> call' = NoCall)
  BY <1>2, <1>6
<1>8. head' \in [Paths -> Contents] /\ index' \in [Paths -> Contents] /\ strategy' \in Strategies
      /\ edits' \in 0..MaxEdits /\ calls' \in 1..MaxCalls
  BY <1>1, <1>3, TypeFacts DEF TypeOK
<1> QED  BY <1>3, <1>4, <1>5, <1>7, <1>8, KeepsMaps

LEMMA CallFiles == ASSUME FilesInv, NEW c \in Calls, Call(c) PROVE FilesInv'
<1>1. Linked(tree) /\ Linkless(main) /\ TypeOK
  BY MapsLinked DEF FilesInv
<1>2. /\ head' = head /\ index' = index /\ tree' = tree /\ main' = main /\ baseline' = baseline
      /\ focus' = focus /\ edits' = edits /\ calls < MaxCalls /\ calls' = calls + 1
  BY DEF Call, files
<1>3. pc' \in {"sync", "spec"} /\ call' = c /\ c # NoCall
  BY DEF Call, NoCall
<1>4. strategy' \in Strategies
  BY <1>1 DEF Call, TypeOK
<1>5. calls' \in 1..MaxCalls
  BY <1>1, <1>2, BoundsAssumption DEF TypeOK
<1>6. edits' \in 0..MaxEdits
  BY <1>1, <1>2 DEF TypeOK
<1>7. Linked(tree') /\ Linkless(main')
  BY <1>1, <1>2
<1> QED  BY <1>1, <1>2, <1>3, <1>4, <1>5, <1>6, <1>7, TypeFacts, KeepsMaps

LEMMA UserFiles == ASSUME FilesInv, NEW p \in focus,
                         Edit(p) \/ EditBlock(p) \/ Delete(p) \/ Stage(p) \/ Untrack(p) \/ Commit(p) \/ EditMain(p)
                  PROVE FilesInv'
<1>1. Linked(tree) /\ Linkless(main) /\ TypeOK /\ p \in Paths
  BY MapsLinked, FocusesAssumption DEF FilesInv, TypeOK
<1>2. /\ edits < MaxEdits /\ edits' = edits + 1
      /\ UNCHANGED <<baseline, recorded, pc, call, strategy, focus, calls>>
  BY DEF Edit, EditBlock, Delete, Stage, Untrack, Commit, EditMain, Uses
<1>3. edits' \in 0..MaxEdits
  BY <1>1, <1>2, BoundsAssumption DEF TypeOK
<1>4. Linked(tree') /\ Linkless(main')
  <2>1. CASE Edit(p)
    <3>1. CASE tree[p].kind # "link" /\ tree' = [tree EXCEPT ![p] = File("mine", @.block)] /\ UNCHANGED main
      <4>1. tree[p] \in Contents
        BY <1>1 DEF Linked
      <4>2. tree[p].block \in Blocks
        BY <3>1, <4>1, FileContents, LinkContents DEF Blocks
      <4>3. File("mine", tree[p].block) \in Contents /\ File("mine", tree[p].block).kind # "link"
        BY <4>2, FileContents DEF Owns
      <4> QED  BY <1>1, <3>1, <4>3, SetContent
    <3>2. CASE main' = [main EXCEPT ![p] = File("mine", @.block)] /\ UNCHANGED tree
      <4>1. main[p] \in Contents /\ main[p].kind # "link"
        BY <1>1 DEF Linkless
      <4>2. main[p].block \in Blocks
        BY <4>1, FileContents, LinkContents DEF Blocks
      <4>3. File("mine", main[p].block) \in Contents /\ File("mine", main[p].block).kind # "link"
        BY <4>2, FileContents DEF Owns
      <4> QED  BY <1>1, <3>2, <4>3, SetMain
    <3> QED  BY <2>1, <3>1, <3>2 DEF Edit
  <2>2. CASE EditBlock(p)
    <3>1. tree[p].kind = "file" /\ "edited" \in Blocks /\ "mixed" \in Blocks
      BY <1>1, <2>2, LinkContents DEF EditBlock, PassesForOurs, Linked, Blocks
    <3>2. UNCHANGED main
      BY <2>2 DEF EditBlock
    <3>3. CASE tree' = [tree EXCEPT ![p].block = "edited"]
      BY <1>1, <3>1, <3>2, <3>3, SetBlock
    <3>4. CASE tree' = [tree EXCEPT ![p].block = "mixed"]
      BY <1>1, <3>1, <3>2, <3>4, SetBlock
    <3> QED  BY <2>2, <3>3, <3>4 DEF EditBlock
  <2>3. CASE Delete(p)
    BY <1>1, <2>3, SetContent, LinkContents DEF Delete
  <2>4. CASE Stage(p) \/ Untrack(p) \/ Commit(p)
    BY <1>1, <2>4 DEF Stage, Untrack, Commit
  <2>5. CASE EditMain(p)
    <3>1. File("next", "none") \in Contents /\ File("next", "none").kind # "link"
      BY FileContents DEF Owns, Blocks
    <3> QED  BY <1>1, <2>5, <3>1, SetMain DEF EditMain
  <2> QED  BY <2>1, <2>2, <2>3, <2>4, <2>5
<1>5. head' \in [Paths -> Contents] /\ index' \in [Paths -> Contents]
  <2>1. /\ head \in [Paths -> Contents]
        /\ index \in [Paths -> Contents]
        /\ tree[p] \in Contents
        /\ Missing \in Contents
    BY <1>1, TypeFacts, LinkContents
  <2> QED  BY <2>1 DEF Edit, EditBlock, Delete, Stage, Untrack, Commit, EditMain
<1> QED  BY <1>1, <1>2, <1>3, <1>4, <1>5, TypeFacts, KeepsMaps DEF TypeOK

LEMMA NextFiles == FilesInv /\ [Next]_vars => FilesInv'
<1> SUFFICES ASSUME FilesInv, [Next]_vars PROVE FilesInv'
  OBVIOUS
<1>1. CASE Write
  BY <1>1, WriteFiles
<1>2. CASE \E c \in Calls : Call(c)
  BY <1>2, CallFiles
<1>3. CASE User
  BY <1>3, UserFiles DEF User
<1>4. CASE UNCHANGED vars
  BY <1>4 DEF FilesInv, TypeOK, LinksInv, vars, files
<1> QED  BY <1>1, <1>2, <1>3, <1>4 DEF Next

\* The files of the worktree and of the main worktree are of the kinds that the
\* classification tells apart, whatever the syncs and the user do.
THEOREM FileTypes == Spec => []TypeOK
<1>1. FilesInv => TypeOK
  BY DEF FilesInv
<1> QED  BY <1>1, InitFiles, NextFiles, PTL DEF Spec


---------------------------------------------------------------------------
(* One strategy for all syncs.                                             *)

\* There are links to the main worktree only under the strategy that makes them.
StrategyInv == \A p \in Synced : tree[p] = Link("main") => strategy = "symlink"

LEMMA ConfiguredFiles ==
  ASSUME Linked(tree), tree["config"].kind = "file", tree' = [tree EXCEPT !["config"].block = "ours"]
  PROVE  \A p \in Paths : tree'[p] = IF p = "config" THEN File(tree["config"].own, "ours") ELSE tree[p]
<1>1. "config" \in Paths /\ "ours" \in Blocks /\ DOMAIN tree = Paths /\ tree["config"] \in Contents
  BY PathNames DEF Blocks, Linked
<1>2. [tree["config"] EXCEPT !.block = "ours"] = File(tree["config"].own, "ours")
  BY <1>1, WithBlock, LinkContents
<1>3. tree' = [tree EXCEPT !["config"] = [tree["config"] EXCEPT !.block = "ours"]]
  OBVIOUS
<1>4. tree'["config"] = [tree["config"] EXCEPT !.block = "ours"]
  BY <1>1, <1>3, Zenon
<1>5. \A p \in Paths : p # "config" => tree'[p] = tree[p]
  BY <1>1, <1>3
<1> QED  BY <1>2, <1>4, <1>5

LEMMA InitStrategy == Init => StrategyInv
<1> SUFFICES ASSUME Init PROVE StrategyInv
  OBVIOUS
<1>1. \A p \in Paths : tree[p] = File("base", "none") \/ tree[p] = Missing
  BY DEF Init
<1>2. File("base", "none") # Link("main") /\ Missing # Link("main")
  BY DEF File, Missing, Link
<1> QED  BY <1>1, <1>2, SyncedPaths DEF StrategyInv

LEMMA NotLinkMain ==
  /\ \A o, b : File(o, b) # Link("main")
  /\ Missing # Link("main") /\ Link("up") # Link("main")
BY DEF File, Missing, Link

LEMMA NoLink ==
  ASSUME NEW c \in Contents, c.kind # "link"
  PROVE  c # Link("main")
BY LinkContents

LEMMA SyncStrategy ==
  ASSUME FilesInv, StrategyInv, SyncTo, strategy' = strategy
  PROVE  /\ StrategyInv'
         /\ \A p \in Synced : main'[p] = main[p]
         /\ \A p \in Synced : \/ tree'[p] = Missing \/ tree'[p] = Link("main")
                              \/ strategy = "copy" /\ tree'[p] = main[p]
<1>1. Linked(tree) /\ Linkless(main) /\ strategy \in Strategies
  BY MapsLinked, TypeFacts DEF FilesInv
<1>2. DOMAIN tree = Paths /\ DOMAIN main = Paths
  BY <1>1 DEF Linked, Linkless
<1>3. \A p \in Synced : ~Aliased(p) /\ main[p] # Link("main")
  BY <1>1, SyncedPaths, NoLink DEF Aliased, StrategyInv, Linkless
<1>4. \A p \in Synced : \/ tree'[p] = Missing
                        \/ strategy = "symlink" /\ tree'[p] = Link("main")
                        \/ strategy = "copy" /\ tree'[p] = main[p]
  BY <1>1, <1>2, <1>3, SyncedPaths DEF SyncTo, Strategies
<1>5. \A p \in Synced : main'[p] = main[p]
  BY <1>2, <1>3, SyncedPaths DEF SyncTo
<1>6. StrategyInv'
  BY <1>3, <1>4, NotLinkMain DEF StrategyInv
<1> QED  BY <1>4, <1>5, <1>6

LEMMA WriteStrategy ==
  ASSUME FilesInv, StrategyInv, Write
  PROVE  StrategyInv' /\ \A p \in Synced : main'[p] = main[p]
<1>1. Linked(tree) /\ Linkless(main)
  BY MapsLinked
<1>2. DOMAIN tree = Paths /\ DOMAIN main = Paths
  BY <1>1 DEF Linked, Linkless
<1>3. strategy' = strategy
  BY DEF Write, EnsureSpec, PrepareEnv, Sync, Configure, Record, Settings
<1>4. CASE EnsureSpec
  <2>1. \A p \in Synced : tree'[p] = tree[p] /\ main'[p] = main[p]
    BY <1>2, <1>4, SyncedPaths DEF EnsureSpec, Synced
  <2> QED  BY <1>3, <2>1 DEF StrategyInv
<1>5. CASE PrepareEnv
  <2>1. \A p \in Synced : tree'[p] = tree[p] /\ main'[p] = main[p]
    BY <1>2, <1>5, SyncedPaths DEF PrepareEnv
  <2> QED  BY <1>3, <2>1 DEF StrategyInv
<1>6. CASE Sync
  <2>1. CASE SyncTo
    BY <1>3, <2>1, SyncStrategy
  <2>2. CASE UNCHANGED <<tree, main>>
    BY <1>3, <2>2 DEF StrategyInv
  <2> QED  BY <1>6, <2>1, <2>2 DEF Sync
<1>7. CASE Configure
  <2>1. CASE tree["config"].kind = "file" /\ tree' = [tree EXCEPT !["config"].block = "ours"]
    <3>1. "config" \in Paths /\ "ours" \in Blocks
      BY PathNames DEF Blocks
    <3>2. \A q \in Paths : tree'[q] = IF q = "config" THEN File(tree["config"].own, "ours") ELSE tree[q]
      BY <1>1, <2>1, ConfiguredFiles
    <3>3. \A p \in Synced : tree'[p] = tree[p] \/ tree'[p] = File(tree["config"].own, "ours")
      BY <3>2, SyncedPaths
    <3> QED  BY <1>3, <1>7, <3>3, NotLinkMain DEF StrategyInv, Configure
  <2>2. CASE tree' = tree
    BY <1>3, <1>7, <2>2 DEF StrategyInv, Configure
  <2> QED  BY <1>7, <2>1, <2>2 DEF Configure
<1>8. CASE Record
  BY <1>3, <1>8 DEF Record, files, StrategyInv
<1>9. CASE Settings
  <2>1. \A p \in Synced : tree'[p] = tree[p] /\ main'[p] = main[p]
    BY <1>2, <1>9, SyncedPaths DEF Settings
  <2> QED  BY <1>3, <2>1 DEF StrategyInv
<1> QED  BY <1>4, <1>5, <1>6, <1>7, <1>8, <1>9 DEF Write

LEMMA UserStrategy ==
  ASSUME FilesInv, StrategyInv, User
  PROVE  StrategyInv'
<1> PICK p \in focus :
      Edit(p) \/ EditBlock(p) \/ Delete(p) \/ Stage(p) \/ Untrack(p) \/ Commit(p) \/ EditMain(p)
  BY DEF User
<1>1. Linked(tree) /\ p \in Paths /\ strategy' = strategy /\ DOMAIN tree = Paths
  BY MapsLinked, FocusesAssumption
  DEF FilesInv, TypeOK, Linked, Edit, EditBlock, Delete, Stage, Untrack, Commit, EditMain, Uses
<1>2. \A q \in Synced : tree'[q] = tree[q] \/ tree'[q] # Link("main")
  <2>1. CASE Edit(p)
    BY <1>1, <2>1, SyncedPaths, NotLinkMain DEF Edit
  <2>2. CASE EditBlock(p)
    BY <1>1, <2>2, SyncedPaths DEF EditBlock, Synced
  <2>3. CASE Delete(p)
    BY <1>1, <2>3, SyncedPaths, NotLinkMain DEF Delete
  <2> QED  BY <2>1, <2>2, <2>3 DEF Stage, Untrack, Commit, EditMain
<1> QED  BY <1>1, <1>2 DEF StrategyInv

LEMMA NextStrategy ==
  ASSUME ~StrategyChanges
  PROVE  FilesInv /\ StrategyInv /\ [Next]_vars => StrategyInv'
<1> SUFFICES ASSUME FilesInv, StrategyInv, [Next]_vars PROVE StrategyInv'
  OBVIOUS
<1>1. CASE Write
  BY <1>1, WriteStrategy
<1>2. CASE \E c \in Calls : Call(c)
  BY <1>2 DEF Call, files, StrategyInv
<1>3. CASE User
  BY <1>3, UserStrategy
<1>4. CASE UNCHANGED vars
  BY <1>4 DEF StrategyInv, vars, files
<1> QED  BY <1>1, <1>2, <1>3, <1>4 DEF Next

\* No start and no sync changes the main worktree's devcontainer files while the
\* strategy is the same, whatever the user does in between and at the same time.
THEOREM MainUntouched ==
  ASSUME ~StrategyChanges
  PROVE  Spec => MainKept
<1>1. Init => FilesInv /\ StrategyInv
  BY InitFiles, InitStrategy
<1>2. FilesInv /\ StrategyInv /\ [Next]_vars => FilesInv' /\ StrategyInv'
  BY NextFiles, NextStrategy
<1>3. FilesInv /\ StrategyInv => (Write => \A p \in Synced : main'[p] = main[p])
  BY WriteStrategy
<1>4. FilesInv /\ StrategyInv /\ [Next]_vars => [Write => \A p \in Synced : main'[p] = main[p]]_vars
  BY <1>3
<1> QED  BY <1>1, <1>2, <1>4, PTL DEF Spec, MainKept

---------------------------------------------------------------------------
(* What the last sync recorded.                                            *)

\* None of the user's own text is in what a copying sync copies, nor in what it
\* has left there until it is recorded, nor in the record.
MineInv ==
    /\ \A p \in Synced : strategy = "copy" => main[p].own # "mine"
    /\ \A p \in Synced : pc \in {"configure", "record"} => tree[p].own # "mine"
    /\ \A p \in Synced : baseline[p].own # "mine"

RecordInv == FilesInv /\ StrategyInv /\ MineInv

LEMMA InitMine == Init => MineInv
<1> SUFFICES ASSUME Init PROVE MineInv
  OBVIOUS
<1>1. \A p \in Paths : main[p] = File("base", "none") \/ main[p] = Missing
  BY DEF Init
<1>2. File("base", "none").own # "mine" /\ Missing.own # "mine"
  BY DEF File, Missing
<1> QED  BY <1>1, <1>2, SyncedPaths DEF MineInv, Init

LEMMA WriteMine == ASSUME RecordInv, Write PROVE MineInv'
<1>1. FilesInv /\ StrategyInv /\ MineInv /\ Linked(tree)
  BY MapsLinked DEF RecordInv
<1>2. \A p \in Synced : main'[p] = main[p]
  BY <1>1, WriteStrategy
<1>3. strategy' = strategy
  BY DEF Write, EnsureSpec, PrepareEnv, Sync, Configure, Record, Settings
<1>4. CASE EnsureSpec \/ PrepareEnv \/ Settings
  <2>1. pc' \notin {"configure", "record"} /\ baseline' = baseline
    BY <1>4 DEF EnsureSpec, PrepareEnv, Settings, End
  <2> QED  BY <1>1, <1>2, <1>3, <2>1 DEF MineInv
<1>5. CASE Sync
  <2>1. baseline' = baseline
    BY <1>5 DEF Sync
  <2>2. CASE SyncTo
    <3>1. \A p \in Synced : \/ tree'[p] = Missing \/ tree'[p] = Link("main")
                            \/ strategy = "copy" /\ tree'[p] = main[p]
      BY <1>1, <1>3, <2>2, SyncStrategy
    <3>2. \A p \in Synced : tree'[p].own # "mine"
      BY <1>1, <3>1, LinkContents DEF MineInv
    <3> QED  BY <1>1, <1>2, <1>3, <2>1, <3>2 DEF MineInv
  <2>3. CASE pc' \notin {"configure", "record"}
    BY <1>1, <1>2, <1>3, <2>1, <2>3 DEF MineInv
  <2> QED  BY <1>5, <2>2, <2>3 DEF Sync, End
<1>6. CASE Configure
  <2>1. baseline' = baseline /\ pc = "configure"
    BY <1>6 DEF Configure
  <2>2. CASE tree["config"].kind = "file" /\ tree' = [tree EXCEPT !["config"].block = "ours"]
    <3>1. "config" \in Paths /\ "config" \in Synced /\ "ours" \in Blocks /\ DOMAIN tree = Paths
      BY <1>1, SyncedPaths, PathNames DEF Blocks, Linked
    <3>2. \A q \in Paths : tree'[q] = IF q = "config" THEN File(tree["config"].own, "ours") ELSE tree[q]
      BY <1>1, <2>2, ConfiguredFiles
    <3>3. File(tree["config"].own, "ours").own = tree["config"].own
      BY DEF File
    <3>4. \A p \in Synced : tree'[p].own = tree[p].own
      BY <3>1, <3>2, <3>3, SyncedPaths
    <3> QED  BY <1>1, <1>2, <1>3, <2>1, <3>4 DEF MineInv
  <2>3. CASE tree' = tree
    BY <1>1, <1>2, <1>3, <2>1, <2>3 DEF MineInv
  <2> QED  BY <1>6, <2>2, <2>3 DEF Configure
<1>7. CASE Record
  <2>1. \A p \in Synced : baseline'[p] = tree[p] /\ tree'[p] = tree[p]
    BY <1>7 DEF Record, files
  <2>2. pc = "record"
    BY <1>7 DEF Record
  <2> QED  BY <1>1, <1>2, <1>3, <2>1, <2>2 DEF MineInv
<1> QED  BY <1>4, <1>5, <1>6, <1>7 DEF Write

LEMMA UserMine ==
  ASSUME ~EditsAnytime, RecordInv, User
  PROVE  MineInv'
<1> PICK p \in focus :
      Edit(p) \/ EditBlock(p) \/ Delete(p) \/ Stage(p) \/ Untrack(p) \/ Commit(p) \/ EditMain(p)
  BY DEF User
<1>1. FilesInv /\ StrategyInv /\ MineInv /\ Linkless(main) /\ p \in Paths
  BY MapsLinked, FocusesAssumption DEF RecordInv, FilesInv, TypeOK
<1>2. pc = "idle" /\ pc' = pc /\ strategy' = strategy /\ baseline' = baseline
  BY DEF Edit, EditBlock, Delete, Stage, Untrack, Commit, EditMain, Uses
<1>3. DOMAIN main = Paths /\ strategy \in Strategies /\ ("copy" # "symlink")
  BY <1>1, TypeFacts DEF Linkless, FilesInv
<1>4. \A q \in Synced : strategy = "copy" => main'[q].own # "mine"
  <2>1. CASE Edit(p)
    <3>1. CASE tree[p] = Link("main")
      <4>1. p \in Synced
        BY <1>1, <3>1 DEF FilesInv, LinksInv
      <4>2. strategy = "symlink"
        BY <1>1, <3>1, <4>1 DEF StrategyInv
      <4> QED  BY <4>2
    <3>2. CASE main' = main
      BY <1>1, <3>2 DEF MineInv
    <3> QED  BY <2>1, <3>1, <3>2 DEF Edit
  <2>2. CASE EditMain(p)
    <3>1. File("next", "none").own # "mine"
      BY DEF File
    <3> QED  BY <1>1, <1>3, <2>2, <3>1, SyncedPaths DEF EditMain, MineInv
  <2>3. CASE main' = main
    BY <1>1, <2>3 DEF MineInv
  <2> QED  BY <2>1, <2>2, <2>3 DEF EditBlock, Delete, Stage, Untrack, Commit
<1> QED  BY <1>1, <1>2, <1>4 DEF MineInv

LEMMA NextRecord ==
  ASSUME ~StrategyChanges, ~EditsAnytime
  PROVE  RecordInv /\ [Next]_vars => RecordInv'
<1> SUFFICES ASSUME RecordInv, [Next]_vars PROVE RecordInv'
  OBVIOUS
<1>1. FilesInv' /\ StrategyInv'
  BY NextFiles, NextStrategy DEF RecordInv
<1>2. MineInv'
  <2>1. CASE Write
    BY <2>1, WriteMine
  <2>2. CASE \E c \in Calls : Call(c)
    <3>1. strategy' = strategy /\ UNCHANGED <<main, tree, baseline>> /\ pc' \notin {"configure", "record"}
      BY <2>2 DEF Call, files
    <3> QED  BY <3>1 DEF RecordInv, MineInv
  <2>3. CASE User
    BY <2>3, UserMine
  <2>4. CASE UNCHANGED vars
    BY <2>4 DEF RecordInv, MineInv, vars, files
  <2> QED  BY <2>1, <2>2, <2>3, <2>4 DEF Next
<1> QED  BY <1>1, <1>2 DEF RecordInv


---------------------------------------------------------------------------
(* The classification.                                                     *)

ViewOK(view) ==
    /\ view.head \in [Paths -> Contents] /\ view.index \in [Paths -> Contents]
    /\ view.tree \in [Paths -> Contents] /\ view.main \in [Paths -> Contents]
    /\ \A p \in Synced : view.baseline[p].own # "mine"

LEMMA FinitePaths == IsFiniteSet(Paths)
<1>1. Place \in [Paths -> 1..10]
  BY Places DEF Paths, Place
<1>2. \A p, q \in Paths : Place[p] = Place[q] => p = q
  <2>1. \A p \in Paths : \/ p = "branchboxEnv" \/ p = "devcontainerEnv" \/ p = "config" \/ p = "extra" \/ p = "env"
                         \/ p = "settings" \/ p = "tasks" \/ p = "oldSpec" \/ p = "spec" \/ p = "source"
    BY PathNames
  <2> QED  BY <2>1 DEF Place
<1>3. Place \in Injection(Paths, 1..10)
  BY <1>1, <1>2 DEF Injection, IsInjective
<1>4. IsFiniteSet(1..10)
  <2>1. 1 \in Int /\ 10 \in Int
    OBVIOUS
  <2> QED  BY <2>1, FS_Interval, Zenon
<1> QED  BY <1>3, <1>4, FS_Injection

LEMMA EntryFields ==
  ASSUME NEW view, NEW p
  PROVE  /\ Tracked(view, p).path = p
         /\ Tracked(view, p).x = Letter(view.head[p], view.index[p])
         /\ Tracked(view, p).y = IF view.index[p] = Missing THEN " " ELSE Letter(view.index[p], view.tree[p])
         /\ Untracked(p).path = p /\ Untracked(p).x = "?" /\ Untracked(p).y = "?"
BY DEF Tracked, Untracked

\* The entries of a path.
LEMMA PathEntries ==
  ASSUME NEW view, NEW d \in Status(view)
  PROVE  /\ d.path \in Paths
         /\ \/ d = Tracked(view, d.path)
            \/ d = Untracked(d.path) /\ view.index[d.path] = Missing
<1>1. CASE \E p \in Paths : d = Tracked(view, p)
  <2>1. PICK p \in Paths : d = Tracked(view, p)
    BY <1>1
  <2>2. d.path = p
    BY <2>1, EntryFields
  <2> QED  BY <2>1, <2>2
<1>2. CASE \E p \in Paths : d = Untracked(p) /\ view.index[p] = Missing
  <2>1. PICK p \in Paths : d = Untracked(p) /\ view.index[p] = Missing
    BY <1>2
  <2>2. d.path = p
    BY <2>1, EntryFields
  <2> QED  BY <2>1, <2>2
<1> QED  BY <1>1, <1>2 DEF Status

LEMMA FiniteStatus == ASSUME NEW view PROVE IsFiniteSet(Status(view))
<1> DEFINE f == [p \in Paths |-> Tracked(view, p)]
           g == [p \in Paths |-> Untracked(p)]
           F == {f[p] : p \in Paths}
           G == {g[p] : p \in Paths}
<1>1. f \in Surjection(Paths, F)
  BY DEF Surjection
<1>2. g \in Surjection(Paths, G)
  BY DEF Surjection
<1>3. IsFiniteSet(F)
  BY <1>1, FinitePaths, FS_Surjection
<1>4. IsFiniteSet(G)
  BY <1>2, FinitePaths, FS_Surjection
<1>5. IsFiniteSet(F \cup G)
  BY <1>3, <1>4, FS_Union
<1>6. Status(view) \subseteq F \cup G
  BY DEF Status
<1> QED  BY <1>5, <1>6, FS_Subset

\* With no more entries than MaxEntries, all are listed.
LEMMA AllListed ==
  ASSUME NEW view, ~Unlisted(Status(view))
  PROVE  Listed(Status(view)) = Status(view)
<1> DEFINE S == Status(view)
<1>1. IsFiniteSet(S) /\ Cardinality(S) \in Nat /\ Cardinality(S) <= MaxEntries
  BY FiniteStatus, FS_CardinalityType, MaxEntriesAssumption DEF Unlisted
<1>2. ASSUME NEW e \in S PROVE Cardinality({d \in S : Before(d, e)}) < MaxEntries
  <2> DEFINE T == {d \in S : Before(d, e)}
  <2>1. e.path \in Paths
    BY <1>2, PathEntries
  <2>2. ~Before(e, e)
    BY <2>1, Places DEF Before
  <2>3. T \subseteq S \ {e}
    BY <2>2
  <2>4. IsFiniteSet(S \ {e}) /\ Cardinality(S \ {e}) = Cardinality(S) - 1
    BY <1>1, FS_RemoveElement
  <2>5. Cardinality(T) <= Cardinality(S \ {e})
    BY <2>3, <2>4, FS_Subset
  <2>6. IsFiniteSet(T) /\ Cardinality(T) \in Nat
    BY <2>3, <2>4, FS_Subset, FS_CardinalityType
  <2> QED  BY <1>1, <2>4, <2>5, <2>6, MaxEntriesAssumption
<1> QED  BY <1>2 DEF Listed

LEMMA Letters ==
  ASSUME NEW from \in Contents, NEW to \in Contents
  PROVE  /\ Letter(from, to) \in {" ", "A", "D", "T", "M"}
         /\ Letter(from, to) = " " <=> from = to
         /\ Letter(from, to) = "D" => from # Missing /\ to = Missing
<1>1. CASE from = to
  BY <1>1 DEF Letter
<1>2. CASE from # to /\ from = Missing
  BY <1>2 DEF Letter
<1>3. CASE from # to /\ from # Missing /\ to = Missing
  BY <1>3 DEF Letter
<1>4. CASE from # to /\ from # Missing /\ to # Missing /\ from.kind # to.kind
  BY <1>4 DEF Letter
<1>5. CASE from # to /\ from # Missing /\ to # Missing /\ from.kind = to.kind
  BY <1>5 DEF Letter
<1> QED  BY <1>1, <1>2, <1>3, <1>4, <1>5

\* No rule takes the user's text for a generated file, but for what she changed in
\* the lines, settings and task that BranchBox wrote.
LEMMA NotGenerated ==
  ASSUME NEW view, ViewOK(view), NEW e, e.path \in Paths, Work(view, e.path),
         e.x = "?" \/ e.x = " "
  PROVE  ~Generated(view, e)
<1> DEFINE p == e.path
<1>1. /\ view.tree[p] \in Contents /\ view.main[p] \in Contents /\ view.head[p] \in Contents
  BY DEF ViewOK
<1>2. CASE /\ view.tree[p].own = "mine" /\ "mine" \notin {view.head[p].own, view.main[p].own}
           /\ p = "tasks" => ~PassesForOurs(view.tree[p].block)
  <2>1. ~SyncedBaseline(view, p)
    BY <1>2 DEF SyncedBaseline, ViewOK
  <2>2. ~DerivedFromMain(view, p)
    BY <1>2 DEF DerivedFromMain
  <2>3. ~LinksWorktreeEnv(view, p)
    BY <1>2, LinkContents DEF LinksWorktreeEnv, Work
  <2>4. ~OnlyFeatureBlock(view, p)
    BY <1>2 DEF OnlyFeatureBlock
  <2>5. ~OnlyManagedSettings(view, e)
    BY <1>2 DEF OnlyManagedSettings, Committed
  <2>6. ~OnlyFeatureTask(view, p)
    BY <1>2 DEF OnlyFeatureTask
  <2> QED  BY <2>1, <2>2, <2>3, <2>4, <2>5, <2>6 DEF Generated
<1>3. CASE /\ p \in {"env", "tasks"} /\ view.tree[p].block = "mixed"
           /\ view.tree[p] \notin {view.head[p], view.main[p]}
  <2>1. ~SyncedBaseline(view, p)
    BY <1>3 DEF SyncedBaseline, Synced
  <2>2. ~DerivedFromMain(view, p)
    BY <1>3 DEF DerivedFromMain
  <2>3. ~LinksWorktreeEnv(view, p) /\ ~OnlyManagedSettings(view, e)
    BY <1>3 DEF LinksWorktreeEnv, OnlyManagedSettings
  <2>4. ~OnlyFeatureBlock(view, p) /\ ~OnlyFeatureTask(view, p)
    BY <1>3 DEF OnlyFeatureBlock, OnlyFeatureTask, PassesForOurs
  <2> QED  BY <2>1, <2>2, <2>3, <2>4 DEF Generated
<1> QED  BY <1>2, <1>3 DEF Work

\* Work on disk is among the user's changes; in the index, too.
LEMMA UserVerdict ==
  ASSUME NEW view, ViewOK(view), NEW kept, NEW p \in Paths, p \notin Specs \/ kept # p,
         Work(view, p) \/ StagedWork(view, p)
  PROVE  \E e \in Status(view) :
            /\ e.path = p /\ Verdict(view, e, kept) = "user"
            /\ view.index[p] # Missing \/ view.head[p] = Missing =>
                 \A d \in Status(view) : d.path = p => ~PureDeletion(d)
<1>1. /\ view.tree[p] \in Contents
      /\ view.main[p] \in Contents
      /\ view.head[p] \in Contents
      /\ view.index[p] \in Contents
  BY DEF ViewOK
<1> DEFINE t == Tracked(view, p)
           u == Untracked(p)
<1>2. /\ t.path = p /\ t.x = Letter(view.head[p], view.index[p])
      /\ t.y = IF view.index[p] = Missing THEN " " ELSE Letter(view.index[p], view.tree[p])
      /\ u.path = p /\ u.x = "?" /\ u.y = "?"
  BY DEF Tracked, Untracked
<1>3. /\ t.x # " " \/ t.y # " " => t \in Status(view)
      /\ view.index[p] = Missing /\ view.tree[p] # Missing => u \in Status(view)
  BY DEF Status
<1>4. \A d \in Status(view) : d.path = p => d = t \/ (d = u /\ view.index[p] = Missing)
  BY PathEntries
<1> HIDE DEF t, u
<1>5. CASE Work(view, p)
  <2>1. view.tree[p] # Missing /\ p \notin Reserved /\ view.tree[p] # view.head[p]
    BY <1>1, <1>5, LinkContents DEF Work
  <2>2. view.index[p] # Missing \/ view.head[p] = Missing => ~PureDeletion(t) /\ ~PureDeletion(u)
    <3>1. ~PureDeletion(u)
      BY <1>2 DEF PureDeletion
    <3>2. ASSUME <<t.x, t.y>> = <<" ", "D">> PROVE FALSE
      BY <1>1, <1>2, <2>1, <3>2, Letters
    <3>3. ASSUME <<t.x, t.y>> = <<"D", " ">>, view.index[p] # Missing \/ view.head[p] = Missing
          PROVE FALSE
      BY <1>1, <1>2, <3>3, Letters
    <3> QED  BY <3>1, <3>2, <3>3 DEF PureDeletion
  <2>3. CASE view.index[p] = Missing
    <3>1. ~Generated(view, u)
      BY <1>2, <1>5, NotGenerated
    <3>2. Verdict(view, u, kept) = "user"
      BY <1>2, <2>1, <3>1 DEF Verdict, Preserved
    <3> QED  BY <1>2, <1>3, <1>4, <2>1, <2>2, <2>3, <3>2
  <2>4. CASE view.index[p] # Missing
    <3>1. t.x \in {" ", "A", "D", "T", "M"} /\ (t.x = " " => t.y # " ")
      BY <1>1, <1>2, <2>1, <2>4, Letters
    <3>2. UnstagedOnly(t) => ~Generated(view, t)
      BY <1>2, <1>5, NotGenerated DEF UnstagedOnly
    <3>3. Verdict(view, t, kept) = "user"
      BY <1>2, <2>1, <3>2 DEF Verdict, Preserved
    <3> QED  BY <1>2, <1>3, <1>4, <2>2, <2>4, <3>1, <3>3
  <2> QED  BY <2>3, <2>4
<1>6. CASE StagedWork(view, p)
  <2>1. /\ p \notin Specs /\ p \notin Reserved
        /\ view.index[p] # Missing /\ view.index[p] # view.head[p] /\ view.index[p] # view.tree[p]
    BY <1>1, <1>6, LinkContents DEF StagedWork
  <2>2. t.x \in {"A", "T", "M"}
    BY <1>1, <1>2, <2>1, Letters
  <2>3. ~PureDeletion(t)
    BY <2>2 DEF PureDeletion
  <2>4. Verdict(view, t, kept) = "user"
    BY <1>2, <2>1, <2>2 DEF Verdict, Preserved, UnstagedOnly
  <2> QED  BY <1>2, <1>3, <1>4, <2>1, <2>2, <2>3, <2>4
<1> QED  BY <1>5, <1>6

---------------------------------------------------------------------------
(* The decision.                                                           *)

\* classify_changes and build_teardown_plan: of any worktree whose recorded sync
\* is none of the user's, a plan that is not refused loses no text of the user's
\* but what she changed in the lines, settings and task that BranchBox wrote.
THEOREM PlanSound ==
  ASSUME NEW view, ViewOK(view), NEW request, PlanProceeds(view, request),
         NEW p \in Paths \ Specs, Work(view, p) \/ StagedWork(view, p)
  PROVE  Consented(request, p)
<1> DEFINE S == Status(view)
           kept == KeptSpec(view)
<1> SUFFICES ASSUME ~Consented(request, p) PROVE FALSE
  OBVIOUS
<1>1. ~Discards(request) /\ ~(request.modules /\ ModuleArea(p))
  BY DEF Consented
<1>2. Blocking(UserChanges(view, S, kept), request) = {} /\ ~Unlisted(S)
  BY <1>1 DEF PlanProceeds
<1>3. PICK e \in S : e.path = p /\ Verdict(view, e, kept) = "user"
  BY UserVerdict
<1>4. e \in UserChanges(view, S, kept)
  BY <1>2, <1>3, AllListed DEF UserChanges
<1>5. e \in Blocking(UserChanges(view, S, kept), request)
  BY <1>1, <1>3, <1>4 DEF Blocking
<1> QED  BY <1>2, <1>5

LEMMA MovedView ==
  ASSUME NEW view, ViewOK(view), NEW request,
         view = [head |-> view.head, index |-> view.index, tree |-> view.tree,
                 main |-> view.main, baseline |-> view.baseline]
  PROVE  /\ ViewOK(SpecMoved(view, request))
         /\ SpecMoved(view, request).head = view.head /\ SpecMoved(view, request).index = view.index
<1> DEFINE moved == [view.tree EXCEPT ![KeptSpec(view)] = Missing]
           after == [view EXCEPT !.tree = [@ EXCEPT ![KeptSpec(view)] = Missing]]
<1>1. moved \in [Paths -> Contents]
  BY LinkContents DEF ViewOK
<1>2. /\ after.head = view.head
      /\ after.index = view.index
      /\ after.main = view.main
      /\ after.baseline = view.baseline
      /\ after.tree = moved
  OBVIOUS
<1>3. ViewOK(after)
  BY <1>1, <1>2 DEF ViewOK
<1>4. SpecMoved(view, request) = view \/ SpecMoved(view, request) = after
  BY DEF SpecMoved
<1> QED  BY <1>2, <1>3, <1>4

\* recheck_before_removal: the same of the check after the spec was moved, but
\* for a file that git no longer tracks, and the older copy of a completed spec.
THEOREM RecheckSound ==
  ASSUME NEW view, ViewOK(view), NEW request, RecheckProceeds(view, request),
         view = [head |-> view.head, index |-> view.index, tree |-> view.tree,
                 main |-> view.main, baseline |-> view.baseline],
         NEW p \in Paths, view.index[p] # Missing \/ view.head[p] = Missing,
         Work(SpecMoved(view, request), p) \/ StagedWork(SpecMoved(view, request), p)
  PROVE  Consented(request, p) \/ (p = "oldSpec" /\ Copied(view, request))
<1> DEFINE kept == IF Copied(view, request) THEN "oldSpec" ELSE "none"
           after == SpecMoved(view, request)
           S == Status(after)
           changes == UserChanges(after, S, kept)
<1> SUFFICES ASSUME ~Consented(request, p), ~(p = "oldSpec" /\ Copied(view, request)) PROVE FALSE
  OBVIOUS
<1>1. ViewOK(after) /\ after.head = view.head /\ after.index = view.index
  BY MovedView
<1>2. ~Discards(request) /\ ~(request.modules /\ ModuleArea(p))
  BY DEF Consented
<1>3. Blocking(ContentChanges(changes), request) = {} /\ ~Unlisted(S)
  BY <1>2 DEF RecheckProceeds
<1>4. kept # p
  BY PathNames
<1>5. Work(after, p) \/ StagedWork(after, p)
  OBVIOUS
<1> HIDE DEF kept, after
<1>6. PICK e \in Status(after) :
         /\ e.path = p /\ Verdict(after, e, kept) = "user"
         /\ \A d \in S : d.path = p => ~PureDeletion(d)
  BY <1>1, <1>4, <1>5, UserVerdict
<1>7. e \in changes
  BY <1>3, <1>6, AllListed DEF UserChanges
<1>8. changes \subseteq S
  BY DEF UserChanges, Listed
<1>9. p \notin PureDeletions(changes)
  BY <1>6, <1>8 DEF PureDeletions
<1>10. e \in Blocking(ContentChanges(changes), request)
  BY <1>2, <1>6, <1>7, <1>9 DEF Blocking, ContentChanges
<1> QED  BY <1>3, <1>10

---------------------------------------------------------------------------
(* What the runs reach.                                                    *)

LEMMA ReachedView ==
  ASSUME RecordInv
  PROVE  /\ ViewOK(View)
         /\ View.head = head /\ View.index = index
         /\ View = [head |-> View.head, index |-> View.index, tree |-> View.tree,
                    main |-> View.main, baseline |-> View.baseline]
BY TypeFacts DEF RecordInv, FilesInv, MineInv, ViewOK, View

LEMMA PlanKeeps == RecordInv => PlanKeepsWork
BY ReachedView, PlanSound DEF PlanKeepsWork

LEMMA RecheckKeepsAll == RecordInv => RecheckKeepsTracked
<1> SUFFICES ASSUME RecordInv, NEW p \in Paths, index[p] # Missing \/ head[p] = Missing,
                    NEW request \in Requests, RecheckProceeds(View, request),
                    Work(SpecMoved(View, request), p) \/ StagedWork(SpecMoved(View, request), p)
             PROVE  Consented(request, p) \/ (p = "oldSpec" /\ Copied(View, request))
  BY DEF RecheckKeepsTracked, RecheckKeeps
<1> QED  BY ReachedView, RecheckSound

\* Whatever the user and git did to the worktree since its files were recorded, a
\* plan that is not refused takes none of the user's text for a generated file,
\* but for what she changed in the lines, settings and task that BranchBox wrote:
\* PlanKeepsValues fails.
THEOREM PlannedWorkKept ==
  ASSUME ~StrategyChanges, ~EditsAnytime
  PROVE  Spec => []PlanKeepsWork
<1>1. Init => RecordInv
  BY InitFiles, InitStrategy, InitMine DEF RecordInv
<1> QED  BY <1>1, NextRecord, PlanKeeps, PTL DEF Spec

\* Nor does the last check before the removal, but for a file that git no longer
\* tracks.
THEOREM RecheckedWorkKept ==
  ASSUME ~StrategyChanges, ~EditsAnytime
  PROVE  Spec => []RecheckKeepsTracked
<1>1. Init => RecordInv
  BY InitFiles, InitStrategy, InitMine DEF RecordInv
<1> QED  BY <1>1, NextRecord, RecheckKeepsAll, PTL DEF Spec
=============================================================================
