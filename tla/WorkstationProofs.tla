-------------------------- MODULE WorkstationProofs --------------------------
(***************************************************************************)
(* Proofs about Workstation, for every value of its constants: what was    *)
(* proved of the portal holds beside the platform commands, and these keep *)
(* the processes and the outcomes of their stages straight.                *)
(***************************************************************************)
EXTENDS Workstation, PortalProofs, SequenceTheorems

-----------------------------------------------------------------------------
(* The portal beside platform commands *)

\* Platform commands read the checkout and change nothing of the portal's.
THEOREM WorkstationRunsPortal == WorkstationSpec => Spec
<1>1. WorkstationInit => Init
  BY DEF WorkstationInit
<1>2. [WorkstationNext]_workstationVars => [Next]_vars
  BY DEF WorkstationNext, workstationVars
<1>. QED
  BY <1>1, <1>2, PTL DEF WorkstationSpec, Spec

-----------------------------------------------------------------------------
(* The invariant of the platform commands *)

Outcome == [exit: {"none", "running", "ok", "failed"}, ok: BOOLEAN,
            revision: Revision \cup {NoRevision}]

StageName ==
  {"tools", "check-versions", "build-images", "bootstrap", "stabilize-hosted-kind",
   "start-backup-store", "load-images", "deploy-gitops", "test-gitops", "verify-data",
   "undeploy-gitops", "destroy", "stop-backup-store"}

Invocation ==
  [command: Subcommand, stages: Seq(StageName), at: Nat,
   pc: {"preflight", "resolve", "stage", "starting", "waiting", "draining", "ended"},
   revision: Revision \cup {NoRevision},
   state: {"Running", "Completed", "Failed", "Died"}]

Tree == [root: {"none", "running", "ok", "failed"},
         child: {"none", "inside", "away"}, piped: BOOLEAN]

PlatformData ==
  /\ os \in {"unix", "windows"}
  /\ invocation \in Invocation /\ tree \in Tree
  /\ outcomes \in Seq(Outcome)
  /\ strays \subseteq [inside: BOOLEAN, cut: BOOLEAN]

\* A tree that is being drained was killed, unless Windows refused.
Drained ==
  invocation.pc = "draining" /\ os = "unix" =>
    tree.root # "running" /\ tree.child # "inside"

\* down neither validates nor resolves.
PreparesOnly == invocation.pc \in {"preflight", "resolve"} => invocation.command # "down"

\* One outcome for each stage before the present one.
OutcomesKept ==
  invocation.pc # "ended" =>
    /\ invocation.at \in 1..Len(invocation.stages)
    /\ Len(outcomes) = invocation.at - 1
    /\ invocation.state = "Running"

\* A stage is said to have succeeded only if it did.
SuccessIsReal == \A k \in DOMAIN outcomes : outcomes[k].ok => outcomes[k].exit = "ok"

\* up and verify go on after a success only.
SuccessBefore ==
  invocation.command # "down" =>
    \A k \in DOMAIN outcomes :
      k < Len(outcomes) \/ invocation.pc # "ended" => outcomes[k].ok

\* up keeps the revision it resolved first.
RevisionKept ==
  invocation.command = "up" =>
    /\ invocation.pc \in {"preflight", "resolve"} => outcomes = << >>
    /\ \A k \in DOMAIN outcomes : outcomes[k].revision = invocation.revision

\* What the end of a command says.
EndTells ==
  invocation.pc = "ended" =>
    /\ invocation.command = "down" /\ invocation.state # "Died" =>
         Len(outcomes) = Len(invocation.stages)
    /\ invocation.state = "Completed" =>
         /\ Len(outcomes) = Len(invocation.stages)
         /\ \A k \in DOMAIN outcomes : outcomes[k].ok

PlatformInv ==
  /\ PlatformData /\ NothingRunsOn /\ Drained
  /\ PreparesOnly /\ OutcomesKept /\ SuccessIsReal /\ SuccessBefore /\ RevisionKept
  /\ EndTells

\* It implies what the runs check.
LEMMA PlatformInvTells ==
  ASSUME PlatformInv
  PROVE  StagesTell
<1> USE DEF PlatformInv, PlatformData, Invocation
<1>1. ASSUME NEW k \in DOMAIN outcomes, outcomes[k].ok
      PROVE  outcomes[k].exit = "ok"
  BY <1>1 DEF SuccessIsReal
<1>2. invocation.command # "down" =>
        \A k \in DOMAIN outcomes :
          k < Len(outcomes) \/ invocation.pc # "ended" => outcomes[k].exit = "ok"
  BY <1>1 DEF SuccessBefore
<1>3. invocation.command = "up" =>
        \A j, k \in DOMAIN outcomes : outcomes[j].revision = outcomes[k].revision
  BY DEF RevisionKept
<1>4. invocation.command = "down" /\ invocation.pc = "ended" /\ invocation.state # "Died" =>
        Len(outcomes) = Len(invocation.stages)
  BY DEF EndTells
<1>5. invocation.pc = "ended" /\ invocation.state = "Completed" =>
        /\ Len(outcomes) = Len(invocation.stages)
        /\ \A k \in DOMAIN outcomes : outcomes[k].exit = "ok"
  BY <1>1 DEF EndTells
<1>. QED
  BY <1>2, <1>3, <1>4, <1>5 DEF StagesTell

\* Every command has stages.
LEMMA StagesAreListed ==
  ASSUME NEW command \in Subcommand, NEW profile \in Profile, NEW hosted \in BOOLEAN
  PROVE  /\ Stages(command, profile, hosted) \in Seq(StageName)
         /\ Len(Stages(command, profile, hosted)) >= 1
<1>1. ASSUME NEW condition \in BOOLEAN, NEW s \in Seq(StageName)
      PROVE  If(condition, s) \in Seq(StageName)
  BY <1>1 DEF If
<1>2. ASSUME NEW s \in Seq(StageName), NEW t \in Seq(StageName)
      PROVE  s \o t \in Seq(StageName) /\ Len(s \o t) >= Len(s)
  <2>1. Len(s) \in Nat /\ Len(t) \in Nat
    BY LenProperties
  <2>2. s \o t \in Seq(StageName) /\ Len(s \o t) = Len(s) + Len(t)
    BY ConcatProperties
  <2>. QED
    BY <2>1, <2>2
<1>3. /\ UpStages(profile, hosted) \in Seq(StageName)
      /\ Len(UpStages(profile, hosted)) >= 1
  <2> DEFINE a == <<"tools", "check-versions", "build-images", "bootstrap">>
             b == <<"stabilize-hosted-kind">>
             c == <<"start-backup-store">>
             d == <<"load-images", "deploy-gitops", "test-gitops">>
             e == <<"verify-data">>
             hostedFull == profile = "full" /\ hosted
             full == profile = "full"
  <2>1. /\ a \in Seq(StageName) /\ b \in Seq(StageName) /\ c \in Seq(StageName)
        /\ d \in Seq(StageName) /\ e \in Seq(StageName)
    BY DEF StageName
  <2>2. Len(a) = 4
    OBVIOUS
  <2> HIDE DEF a, b, c, d, e
  <2>3. /\ If(hostedFull, b) \in Seq(StageName) /\ If(full, c) \in Seq(StageName)
        /\ If(full, e) \in Seq(StageName)
    BY <1>1, <2>1
  <2> DEFINE ab == a \o If(hostedFull, b)
             abc == ab \o If(full, c)
             abcd == abc \o d
             abcde == abcd \o If(full, e)
  <2>4. ab \in Seq(StageName) /\ Len(ab) >= 1
    <3>1. ab \in Seq(StageName) /\ Len(ab) >= 4
      BY <1>2, <2>1, <2>2, <2>3, Zenon
    <3>2. Len(ab) \in Nat
      BY <3>1, LenProperties
    <3>. QED
      BY <3>1, <3>2
  <2>5. abc \in Seq(StageName) /\ Len(abc) >= 1
    BY <1>2, <2>3, <2>4, LenProperties
  <2>6. abcd \in Seq(StageName) /\ Len(abcd) >= 1
    BY <1>2, <2>1, <2>5, LenProperties
  <2>7. abcde \in Seq(StageName) /\ Len(abcde) >= 1
    BY <1>2, <2>3, <2>6, LenProperties
  <2>. QED
    BY <2>7 DEF UpStages, a, b, c, d, e
<1>4. DownStages(profile) \in Seq(StageName) /\ Len(DownStages(profile)) >= 1
  <2> DEFINE a == <<"undeploy-gitops", "destroy">>
             b == <<"stop-backup-store">>
  <2>1. a \in Seq(StageName) /\ Len(a) = 2 /\ b \in Seq(StageName)
    BY DEF StageName
  <2> HIDE DEF a, b
  <2>2. If(profile = "full", b) \in Seq(StageName)
    BY <1>1, <2>1
  <2>3. a \o If(profile = "full", b) \in Seq(StageName)
        /\ Len(a \o If(profile = "full", b)) >= 1
    <3>1. /\ a \o If(profile = "full", b) \in Seq(StageName)
          /\ Len(a \o If(profile = "full", b)) >= 2
      BY <1>2, <2>1, <2>2
    <3>2. Len(a \o If(profile = "full", b)) \in Nat
      BY <3>1, LenProperties
    <3>. QED
      BY <3>1, <3>2
  <2>. QED
    BY <2>3 DEF DownStages, a, b
<1>5. VerifyStages(profile) \in Seq(StageName) /\ Len(VerifyStages(profile)) >= 1
  <2> DEFINE a == <<"test-gitops">>
             b == <<"verify-data">>
  <2>1. a \in Seq(StageName) /\ Len(a) = 1 /\ b \in Seq(StageName)
    BY DEF StageName
  <2> HIDE DEF a, b
  <2>2. If(profile = "full", b) \in Seq(StageName)
    BY <1>1, <2>1
  <2>3. a \o If(profile = "full", b) \in Seq(StageName)
        /\ Len(a \o If(profile = "full", b)) >= 1
    BY <1>2, <2>1, <2>2, LenProperties
  <2>. QED
    BY <2>3 DEF VerifyStages, a, b
<1>. QED
  BY <1>3, <1>4, <1>5 DEF Stages, Subcommand

\* At first no command has been run.
LEMMA PlatformInitially == PlatformInit => PlatformInv
<1> SUFFICES ASSUME PlatformInit PROVE PlatformInv
  OBVIOUS
<1>1. << >> \in Seq(StageName) /\ << >> \in Seq(Outcome) /\ Len(<< >>) = 0
  BY EmptySeq
<1>2. outcomes = << >> /\ strays = {} /\ os \in {"unix", "windows"}
      /\ invocation = NotInvoked /\ tree = NoTree
  BY DEF PlatformInit
<1>3. invocation \in Invocation
  BY <1>1, <1>2 DEF NotInvoked, Invocation, Subcommand
<1>4. tree \in Tree
  BY <1>2 DEF NoTree, Tree
<1>5. DOMAIN outcomes = {}
  BY <1>1, <1>2
<1>6. invocation.pc = "ended" /\ invocation.state = "Failed" /\ invocation.command = "up"
  BY <1>2 DEF NotInvoked
<1>. QED
  BY <1>1, <1>2, <1>3, <1>4, <1>5, <1>6 DEF PlatformInv, PlatformData, NothingRunsOn,
     Drained, PreparesOnly, OutcomesKept, SuccessIsReal, SuccessBefore, RevisionKept,
     EndTells

\* What runs on after a stage is no part of its tree, unless on Unix the stage
\* ended by itself.
LEMMA OnlyOthersRunOn ==
  ASSUME PlatformData, NothingRunsOn, NEW t \in Tree, NEW cut \in BOOLEAN,
         os = "unix" /\ cut => t.root # "running" /\ t.child # "inside",
         strays' = strays \cup Running(TreeClosed(t), cut), os' = os
  PROVE  /\ strays' \subseteq [inside: BOOLEAN, cut: BOOLEAN]
         /\ NothingRunsOn'
<1> DEFINE c == TreeClosed(t)
<1>1. c \in Tree
  BY DEF TreeClosed, TreeKilled, Tree
<1>2. c.root = "running" \/ c.child = "inside" => os = "unix" /\ ~cut
  BY DEF TreeClosed, TreeKilled, Tree, PlatformData
<1>3. ASSUME NEW s \in Running(c, cut)
      PROVE  s \in [inside: BOOLEAN, cut: BOOLEAN] /\ (s.inside => os = "unix" /\ ~s.cut)
  <2>1. CASE s = [inside |-> TRUE, cut |-> cut] /\ c.root = "running"
    BY <1>2, <2>1
  <2>2. CASE s = [inside |-> c.child = "inside", cut |-> cut]
    BY <1>2, <2>2
  <2>. QED
    BY <1>3, <2>1, <2>2 DEF Running
<1>. QED
  BY <1>3 DEF PlatformData, NothingRunsOn

\* The end of a stage is added to the outcomes and decides how to go on.
LEMMA StageEnds ==
  ASSUME PlatformInv, NEW ok \in BOOLEAN, NEW cut \in BOOLEAN, EndStage(ok, cut),
         invocation.pc \in {"stage", "waiting", "draining"},
         ok => tree.root = "ok",
         os = "unix" /\ cut => tree.root # "running" /\ tree.child # "inside"
  PROVE  PlatformInv'
<1> DEFINE new == [exit |-> tree.root, ok |-> ok, revision |-> invocation.revision]
           n == Len(outcomes)
<1> USE DEF PlatformInv, PlatformData
<1>1. new \in Outcome
  BY DEF Outcome, Tree, Invocation
<1>2. /\ n \in Nat /\ DOMAIN outcomes = 1..n
      /\ outcomes' \in Seq(Outcome) /\ Len(outcomes') = n + 1
      /\ DOMAIN outcomes' = 1..(n + 1)
      /\ \A k \in 1..n : outcomes'[k] = outcomes[k]
      /\ outcomes'[n + 1] = new
  BY <1>1 DEF EndStage
<1>3. /\ invocation.at \in 1..Len(invocation.stages) /\ n = invocation.at - 1
      /\ invocation.state = "Running" /\ invocation.pc # "ended"
      /\ Len(invocation.stages) \in Nat
  BY LenProperties DEF OutcomesKept, Invocation
<1>4. /\ invocation'.command = invocation.command
      /\ invocation'.stages = invocation.stages
      /\ invocation'.revision = invocation.revision
      /\ invocation' \in Invocation
  <2>1. \/ \E state \in {"Completed", "Failed"} :
             invocation' = [invocation EXCEPT !.pc = "ended", !.state = state]
        \/ \E pc \in {"resolve", "stage"} :
             invocation' = [invocation EXCEPT !.at = @ + 1, !.pc = pc]
    BY DEF EndStage, Advance
  <2>2. invocation.at + 1 \in Nat
    BY DEF Invocation
  <2>. QED
    BY <2>1, <2>2 DEF Invocation
<1>5. \/ /\ ~ok /\ invocation.command # "down"
         /\ invocation'.pc = "ended" /\ invocation'.state = "Failed"
      \/ /\ ok \/ invocation.command = "down"
         /\ invocation.at = Len(invocation.stages)
         /\ invocation'.pc = "ended"
         /\ \/ invocation'.state = "Failed"
            \/ invocation'.state = "Completed" /\ ok /\ \A k \in 1..n : outcomes[k].ok
      \/ /\ ok \/ invocation.command = "down"
         /\ invocation.at # Len(invocation.stages)
         /\ invocation'.at = invocation.at + 1 /\ invocation'.state = "Running"
         /\ invocation'.pc = IF invocation.command = "verify" THEN "resolve" ELSE "stage"
  BY <1>2, <1>3 DEF EndStage, Advance, StopsAt, Invocation
<1>6. PlatformData' /\ NothingRunsOn'
  <2>1. strays' = strays \cup Running(TreeClosed(tree), cut) /\ os' = os
    BY DEF EndStage
  <2>2. strays' \subseteq [inside: BOOLEAN, cut: BOOLEAN] /\ NothingRunsOn'
    BY <2>1, OnlyOthersRunOn
  <2>3. tree' \in Tree
    BY DEF EndStage, NoTree, Tree
  <2>. QED
    BY <1>2, <1>4, <2>1, <2>2, <2>3
<1>7. Drained' /\ PreparesOnly'
  BY <1>4, <1>5 DEF Drained, PreparesOnly
<1>8. OutcomesKept'
  BY <1>2, <1>3, <1>4, <1>5 DEF OutcomesKept
<1>9. SuccessIsReal'
  BY <1>2 DEF SuccessIsReal
<1>10. SuccessBefore'
  BY <1>2, <1>3, <1>4, <1>5 DEF SuccessBefore
<1>11. RevisionKept'
  <2>1. CASE invocation.command = "up"
    <3>1. invocation'.pc \notin {"preflight", "resolve"}
      BY <1>5, <2>1
    <3>2. \A k \in 1..(n + 1) : outcomes'[k].revision = invocation.revision
      <4>1. new.revision = invocation.revision
        OBVIOUS
      <4>. QED
        BY <1>2, <2>1, <4>1 DEF RevisionKept
    <3>. QED
      BY <1>2, <1>4, <3>1, <3>2 DEF RevisionKept
  <2>. QED
    BY <1>4, <2>1 DEF RevisionKept
<1>12. EndTells'
  BY <1>2, <1>3, <1>4, <1>5 DEF EndTells
<1>. QED
  BY <1>6, <1>7, <1>8, <1>9, <1>10, <1>11, <1>12

\* Steps within a stage, or of processes, clock and operator.
LEMMA WithinStage ==
  ASSUME PlatformInv, UNCHANGED <<os, outcomes>>, tree' \in Tree, Drained',
         strays' \subseteq strays,
         \/ invocation' = invocation
         \/ /\ invocation.pc \in {"stage", "starting", "waiting"}
            /\ \E pc \in {"starting", "waiting", "draining"} :
                 invocation' = [invocation EXCEPT !.pc = pc]
  PROVE  PlatformInv'
<1> USE DEF PlatformInv, PlatformData, Invocation
<1>1. PlatformData'
  OBVIOUS
<1>2. NothingRunsOn'
  BY DEF NothingRunsOn
<1>3. /\ invocation'.command = invocation.command /\ invocation'.at = invocation.at
      /\ invocation'.stages = invocation.stages /\ invocation'.state = invocation.state
      /\ invocation'.revision = invocation.revision
      /\ \/ invocation'.pc = invocation.pc
         \/ /\ invocation.pc # "ended"
            /\ invocation'.pc \in {"starting", "waiting", "draining"}
  OBVIOUS
<1>4. PreparesOnly' /\ OutcomesKept' /\ SuccessIsReal' /\ SuccessBefore'
      /\ RevisionKept' /\ EndTells'
  BY <1>3 DEF PreparesOnly, OutcomesKept, SuccessIsReal, SuccessBefore, RevisionKept, EndTells
<1>. QED
  BY <1>1, <1>2, <1>4

\* A command that ends without a further outcome, after it failed to get its
\* revision, found a prerequisite missing or was killed.
LEMMA EndsEarly ==
  ASSUME PlatformInv, UNCHANGED <<os, outcomes>>, tree' \in Tree,
         strays' \subseteq [inside: BOOLEAN, cut: BOOLEAN], NothingRunsOn',
         invocation.pc # "ended", NEW state \in {"Failed", "Died"},
         state = "Failed" => invocation.command # "down",
         invocation' = [invocation EXCEPT !.pc = "ended", !.state = state]
  PROVE  PlatformInv'
<1> USE DEF PlatformInv, PlatformData, Invocation
<1>1. PlatformData'
  OBVIOUS
<1>2. /\ invocation'.command = invocation.command /\ invocation'.pc = "ended"
      /\ invocation'.state = state /\ invocation'.revision = invocation.revision
  OBVIOUS
<1>3. Drained' /\ PreparesOnly' /\ OutcomesKept' /\ SuccessIsReal' /\ SuccessBefore'
      /\ RevisionKept' /\ EndTells'
  BY <1>2 DEF Drained, PreparesOnly, OutcomesKept, SuccessIsReal, SuccessBefore, RevisionKept, EndTells
<1>. QED
  BY <1>1, <1>3

\* Every step of the platform commands and their processes.
LEMMA PlatformStepKeeps ==
  ASSUME PlatformInv, NEW head \in Revision, PlatformNext(head)
  PROVE  PlatformInv'
<1> USE DEF PlatformInv, PlatformData
<1>1. ASSUME NEW command \in Subcommand, NEW profile \in Profile, NEW hosted \in BOOLEAN,
             Invoke(command, profile, hosted)
      PROVE  PlatformInv'
  <2> DEFINE stages == Stages(command, profile, hosted)
  <2>1. stages \in Seq(StageName) /\ Len(stages) >= 1 /\ Len(stages) \in Nat
    BY StagesAreListed, LenProperties
  <2> HIDE DEF stages
  <2>2. /\ invocation'.command = command /\ invocation'.stages = stages
        /\ invocation'.at = 1 /\ invocation'.revision = NoRevision
        /\ invocation'.state = "Running"
        /\ invocation'.pc \in {"preflight", "stage", "resolve"}
        /\ invocation' \in Invocation
    BY <1>1, <2>1 DEF Invoke, Invocation, Subcommand, stages
  <2>3. /\ outcomes' = << >> /\ Len(outcomes') = 0 /\ DOMAIN outcomes' = {}
        /\ outcomes' \in Seq(Outcome)
    BY <1>1, EmptySeq DEF Invoke
  <2>4. UNCHANGED <<os, strays>> /\ tree' \in Tree
    BY <1>1 DEF Invoke, NoTree, Tree
  <2>5. PlatformData' /\ NothingRunsOn' /\ Drained' /\ PreparesOnly'
    BY <1>1, <2>2, <2>3, <2>4 DEF Invoke, NothingRunsOn, Drained, PreparesOnly
  <2>6. OutcomesKept' /\ SuccessIsReal' /\ SuccessBefore' /\ RevisionKept' /\ EndTells'
    BY <2>1, <2>2, <2>3 DEF OutcomesKept, SuccessIsReal, SuccessBefore, RevisionKept,
       EndTells
  <2>. QED
    BY <2>5, <2>6
<1>2. ASSUME Preflight PROVE PlatformInv'
  <2>1. UNCHANGED <<os, outcomes, strays, tree>> /\ invocation.pc = "preflight"
    BY <1>2 DEF Preflight
  <2>2. invocation.command # "down"
    BY <2>1 DEF PreparesOnly
  <2>3. CASE Fail
    BY <2>1, <2>2, <2>3, EndsEarly DEF Fail, NothingRunsOn
  <2>4. CASE Proceed("resolve")
    BY <2>1, <2>4 DEF Proceed, Invocation, NothingRunsOn, Drained, OutcomesKept, SuccessIsReal,
       SuccessBefore, RevisionKept, EndTells, PreparesOnly
  <2>. QED
    BY <1>2, <2>3, <2>4 DEF Preflight
<1>3. ASSUME Resolve(head) PROVE PlatformInv'
  <2>1. UNCHANGED <<os, outcomes, strays, tree>> /\ invocation.pc = "resolve"
    BY <1>3 DEF Resolve
  <2>2. invocation.command # "down"
    BY <2>1 DEF PreparesOnly
  <2>3. CASE Fail
    BY <2>1, <2>2, <2>3, EndsEarly DEF Fail, NothingRunsOn
  <2>4. CASE invocation' = [invocation EXCEPT !.pc = "stage", !.revision = head]
    <3>1. /\ invocation'.command = invocation.command /\ invocation'.at = invocation.at
          /\ invocation'.stages = invocation.stages /\ invocation'.state = invocation.state
          /\ invocation'.pc = "stage" /\ invocation' \in Invocation
      BY <2>4 DEF Invocation
    <3>2. invocation.command = "up" => DOMAIN outcomes' = {}
      BY <2>1, EmptySeq DEF RevisionKept
    <3>. QED
      BY <2>1, <3>1, <3>2 DEF NothingRunsOn, Drained, OutcomesKept, SuccessIsReal,
         SuccessBefore, RevisionKept, EndTells, PreparesOnly
  <2>. QED
    BY <1>3, <2>3, <2>4 DEF Resolve
<1>4. ASSUME BeginStage PROVE PlatformInv'
  <2>1. CASE EndStage(FALSE, FALSE)
    BY <1>4, <2>1, StageEnds DEF BeginStage
  <2>2. CASE tree' = [NoTree EXCEPT !.root = "running"] /\ Proceed("starting")
             /\ UNCHANGED <<os, due, interrupted, outcomes, strays, invocations>>
    <3>1. tree' \in Tree
      BY <2>2 DEF NoTree, Tree
    <3>2. invocation.pc = "stage" /\ invocation' = [invocation EXCEPT !.pc = "starting"]
      BY <1>4, <2>2 DEF BeginStage, Proceed
    <3>3. Drained'
      BY <3>2 DEF Drained, Invocation
    <3>. QED
      BY <2>2, <3>1, <3>2, <3>3, WithinStage
  <2>. QED
    BY <1>4, <2>1, <2>2 DEF BeginStage
<1>5. ASSUME AfterStart PROVE PlatformInv'
  <2>1. UNCHANGED <<os, outcomes, strays>> /\ invocation.pc = "starting"
    BY <1>5 DEF AfterStart
  <2>2. CASE Proceed("waiting") /\ UNCHANGED tree
    <3>1. invocation' = [invocation EXCEPT !.pc = "waiting"]
      BY <2>2 DEF Proceed
    <3>2. Drained'
      BY <3>1 DEF Drained, Invocation
    <3>. QED
      BY <2>1, <2>2, <3>1, <3>2, WithinStage
  <2>3. CASE os = "windows" /\ tree' = RootKilled(tree) /\ Proceed("draining")
    <3>1. invocation' = [invocation EXCEPT !.pc = "draining"]
      BY <2>3 DEF Proceed
    <3>2. tree' \in Tree
      BY <2>3 DEF RootKilled, Tree
    <3>3. Drained'
      BY <2>1, <2>3 DEF Drained
    <3>. QED
      BY <2>1, <3>1, <3>2, <3>3, WithinStage
  <2>. QED
    BY <1>5, <2>2, <2>3 DEF AfterStart
<1>6. ASSUME Return PROVE PlatformInv'
  BY <1>6, StageEnds DEF Return
<1>7. ASSUME CutOff PROVE PlatformInv'
  <2>1. UNCHANGED <<os, outcomes, strays>> /\ invocation.pc = "waiting"
    BY <1>7 DEF CutOff
  <2>2. invocation' = [invocation EXCEPT !.pc = "draining"]
    BY <1>7 DEF CutOff, Proceed
  <2>3. tree' \in Tree
    BY <1>7 DEF CutOff, Terminated, TreeKilled, Tree
  <2>4. Drained'
    BY <1>7, <2>1 DEF CutOff, Terminated, TreeKilled, Tree, Drained
  <2>. QED
    BY <2>1, <2>2, <2>3, <2>4, WithinStage
<1>8. ASSUME Drain PROVE PlatformInv'
  BY <1>8, StageEnds DEF Drain, Drained
<1>9. ASSUME NEW where \in {"inside", "away"}, NEW piped \in BOOLEAN, Spawn(where, piped)
      PROVE  PlatformInv'
  <2>1. UNCHANGED <<os, outcomes, strays, invocation>> /\ tree.root = "running"
    BY <1>9 DEF Spawn
  <2>2. tree' \in Tree
    BY <1>9 DEF Spawn, Tree
  <2>3. Drained'
    BY <2>1 DEF Drained
  <2>. QED
    BY <2>1, <2>2, <2>3, WithinStage
<1>10. ASSUME NEW ok \in BOOLEAN, RootExits(ok) PROVE PlatformInv'
  <2>1. UNCHANGED <<os, outcomes, strays, invocation>> /\ tree.root = "running"
    BY <1>10 DEF RootExits
  <2>2. tree' \in Tree
    BY <1>10 DEF RootExits, Tree
  <2>3. Drained'
    BY <2>1 DEF Drained
  <2>. QED
    BY <2>1, <2>2, <2>3, WithinStage
<1>11. ASSUME ChildExits PROVE PlatformInv'
  <2>1. UNCHANGED <<os, outcomes, strays, invocation>>
    BY <1>11 DEF ChildExits
  <2>2. tree' \in Tree /\ tree'.root = tree.root /\ tree'.child = "none"
    BY <1>11 DEF ChildExits, Tree
  <2>3. Drained'
    BY <2>1, <2>2 DEF Drained
  <2>. QED
    BY <2>1, <2>2, <2>3, WithinStage
<1>12. ASSUME DeadlinePasses \/ PressCtrlC PROVE PlatformInv'
  <2>1. UNCHANGED <<os, outcomes, strays, invocation, tree>>
    BY <1>12 DEF DeadlinePasses, PressCtrlC
  <2>2. Drained'
    BY <2>1 DEF Drained
  <2>. QED
    BY <2>1, <2>2, WithinStage
<1>13. ASSUME NEW s \in strays, StrayExits(s) PROVE PlatformInv'
  <2>1. UNCHANGED <<os, outcomes, invocation, tree>> /\ strays' \subseteq strays
    BY <1>13 DEF StrayExits
  <2>2. Drained'
    BY <2>1 DEF Drained
  <2>. QED
    BY <2>1, <2>2, WithinStage
<1>14. ASSUME CommandKilled PROVE PlatformInv'
  <2>1. /\ UNCHANGED <<os, outcomes>> /\ invocation.pc # "ended"
        /\ strays' = strays \cup Running(TreeClosed(tree), FALSE)
        /\ invocation' = [invocation EXCEPT !.pc = "ended", !.state = "Died"]
    BY <1>14 DEF CommandKilled
  <2>2. strays' \subseteq [inside: BOOLEAN, cut: BOOLEAN] /\ NothingRunsOn'
    BY <2>1, OnlyOthersRunOn
  <2>3. tree' \in Tree
    BY <1>14 DEF CommandKilled, NoTree, Tree
  <2>. QED
    BY <2>1, <2>2, <2>3, EndsEarly
<1>. QED
  BY <1>1, <1>2, <1>3, <1>4, <1>5, <1>6, <1>7, <1>8, <1>9, <1>10, <1>11, <1>12, <1>13,
     <1>14 DEF PlatformNext

\* The commands, their deadlines and their processes keep the invariant, beside
\* everything else on the workstation.
THEOREM PlatformInvariant == WorkstationSpec => []PlatformInv
<1>1. WorkstationInit => PlatformInv
  BY PlatformInitially DEF WorkstationInit
<1>2. PlatformInv /\ ChangeInv /\ [WorkstationNext]_workstationVars => PlatformInv'
  <2> SUFFICES ASSUME PlatformInv, ChangeInv, [WorkstationNext]_workstationVars
               PROVE  PlatformInv'
    OBVIOUS
  <2>1. CASE UNCHANGED platformVars
    BY <2>1 DEF platformVars, PlatformInv, PlatformData, NothingRunsOn, Drained, PreparesOnly,
       OutcomesKept, SuccessIsReal, SuccessBefore, RevisionKept, EndTells
  <2>2. CASE PlatformStep
    <3>1. checkout.commit \in Revision
      BY WorkstationAssumption DEF ChangeInv, ChangeTypeOK, Content
    <3>. QED
      BY <2>2, <3>1, PlatformStepKeeps DEF PlatformStep
  <2>. QED
    BY <2>1, <2>2 DEF WorkstationNext, workstationVars
<1>3. WorkstationSpec => []ChangeInv
  BY WorkstationRunsPortal, ChangeInvariant, PTL
<1>. QED
  BY <1>1, <1>2, <1>3, PTL DEF WorkstationSpec

\* No process of a group or a job outlives a stage that was cut off.
THEOREM NothingRunsOnHolds == WorkstationSpec => []NothingRunsOn
<1>1. PlatformInv => NothingRunsOn
  BY DEF PlatformInv
<1>. QED
  BY <1>1, PlatformInvariant, PTL

\* Stages follow on success for up and verify, down tries all, and "Completed"
\* is true.
THEOREM StagesTellHolds == WorkstationSpec => []StagesTell
BY PlatformInvTells, PlatformInvariant, PTL

\* Break-glass records, reviewed plans, what pages are sent and what the views
\* that fetch again on every event show stay right beside platform commands.
THEOREM PortalStaysRight ==
  WorkstationSpec => /\ []RecordedFirst /\ []RecordsTell /\ OnInspected
                     /\ []OneRunPerPlan /\ []ReviewedIsDispatched
                     /\ []NoneTwice /\ []PageCurrent
BY WorkstationRunsPortal, PortalRecordsFirst, PortalRecordsTell, PlansRunOnce,
   PortalChangesWhatWasInspected, DispatchesWhatWasReviewed, PortalInforms, PTL

-----------------------------------------------------------------------------
(* Types *)

\* What the types of the platform commands say beyond PlatformData: no stage has
\* two outcomes.
Counted ==
  /\ due \in BOOLEAN /\ interrupted \in BOOLEAN
  /\ invocations \in 0..MaxInvocations
  /\ Len(outcomes) <= Len(invocation.stages)

\* A step of the platform commands keeps that.
LEMMA CountedStep ==
  ASSUME PlatformInv, Counted, NEW head \in Revision, PlatformNext(head)
  PROVE  Counted'
<1> USE DEF Counted
<1>1. ASSUME NEW command \in Subcommand, NEW profile \in Profile, NEW hosted \in BOOLEAN,
             Invoke(command, profile, hosted)
      PROVE  Counted'
  <2>1. Len(Stages(command, profile, hosted)) >= 0
    BY StagesAreListed, LenProperties
  <2>2. Len(outcomes') = 0 /\ Len(invocation'.stages) >= 0
    BY <1>1, <2>1, EmptySeq DEF Invoke
  <2>3. invocations' \in 0..MaxInvocations
    BY <1>1, PlatformAssumption DEF Invoke
  <2>. QED
    BY <1>1, <2>2, <2>3 DEF Invoke
<1>2. ASSUME NEW ok \in BOOLEAN, NEW cut \in BOOLEAN, EndStage(ok, cut), invocation.pc # "ended"
      PROVE  Counted'
  <2>1. /\ outcomes \in Seq(Outcome) /\ invocation \in Invocation
        /\ Len(outcomes) = invocation.at - 1 /\ invocation.at \in 1..Len(invocation.stages)
    BY <1>2 DEF PlatformInv, PlatformData, OutcomesKept
  <2>2. Len(outcomes') = Len(outcomes) + 1
    <3> DEFINE new == [exit |-> tree.root, ok |-> ok, revision |-> invocation.revision]
    <3>1. new \in Outcome /\ outcomes' = Append(outcomes, new)
      BY <1>2, <2>1 DEF EndStage, PlatformInv, PlatformData, Tree, Outcome, Invocation
    <3>. QED
      BY <2>1, <3>1, AppendProperties
  <2>3. invocation'.stages = invocation.stages
    <3>1. \/ \E state \in {"Completed", "Failed"} :
               invocation' = [invocation EXCEPT !.pc = "ended", !.state = state]
          \/ \E pc \in {"resolve", "stage"} :
               invocation' = [invocation EXCEPT !.at = @ + 1, !.pc = pc]
      BY <1>2 DEF EndStage, Advance
    <3>. QED
      BY <2>1, <3>1 DEF Invocation
  <2>4. Len(invocation.stages) \in Nat /\ Len(outcomes) \in Nat
    BY <2>1, LenProperties DEF Invocation
  <2>5. due' \in BOOLEAN /\ UNCHANGED <<interrupted, invocations>>
    BY <1>2 DEF EndStage
  <2>. QED
    BY <2>1, <2>2, <2>3, <2>4, <2>5
<1>3. ASSUME UNCHANGED <<outcomes, invocations>>, due' \in BOOLEAN, interrupted' \in BOOLEAN,
             invocation'.stages = invocation.stages
      PROVE  Counted'
  BY <1>3
<1>4. ASSUME NEW pc, Proceed(pc) PROVE invocation'.stages = invocation.stages
  BY <1>4 DEF Proceed, PlatformInv, PlatformData, Invocation
<1>5. Fail => invocation'.stages = invocation.stages
  BY DEF Fail, PlatformInv, PlatformData, Invocation
<1>6. CASE Preflight \/ Resolve(head)
  <2>1. invocation'.stages = invocation.stages
    BY <1>4, <1>5, <1>6 DEF Preflight, Resolve, PlatformInv, PlatformData, Invocation
  <2>. QED
    BY <1>3, <1>6, <2>1 DEF Preflight, Resolve
<1>7. CASE BeginStage
  BY <1>2, <1>3, <1>4, <1>7 DEF BeginStage
<1>8. CASE AfterStart \/ CutOff
  BY <1>3, <1>4, <1>8 DEF AfterStart, CutOff
<1>9. CASE Return \/ Drain
  BY <1>2, <1>9 DEF Return, Drain
<1>10. CASE CommandKilled
  <2>1. invocation'.stages = invocation.stages
    BY <1>10 DEF CommandKilled, PlatformInv, PlatformData, Invocation
  <2>. QED
    BY <1>3, <1>10, <2>1 DEF CommandKilled
<1>11. CASE ChildExits \/ DeadlinePasses \/ PressCtrlC
  BY <1>3, <1>11 DEF ChildExits, DeadlinePasses, PressCtrlC
<1>12. ASSUME \/ \E where \in {"inside", "away"}, piped \in BOOLEAN : Spawn(where, piped)
              \/ \E ok \in BOOLEAN : RootExits(ok)
              \/ \E s \in strays : StrayExits(s)
       PROVE  Counted'
  BY <1>3, <1>12 DEF Spawn, RootExits, StrayExits
<1>. QED
  BY <1>1, <1>6, <1>7, <1>8, <1>9, <1>10, <1>11, <1>12 DEF PlatformNext

\* Every variable of the workstation keeps its type.
THEOREM WorkstationTypes == WorkstationSpec => []WorkstationTypeOK
<1>1. WorkstationSpec => []TypeOK
  BY WorkstationRunsPortal, PortalTypes, PTL
<1>2. ASSUME WorkstationInit PROVE Counted
  <2>1. outcomes = << >> /\ invocation.stages = << >> /\ Len(<< >>) <= Len(<< >>)
    BY <1>2 DEF WorkstationInit, PlatformInit, NotInvoked
  <2>2. due = FALSE /\ interrupted = FALSE /\ invocations \in 0..MaxInvocations
    BY <1>2, PlatformAssumption DEF WorkstationInit, PlatformInit
  <2>. QED
    BY <2>1, <2>2, Zenon DEF Counted
<1>3. Counted /\ PlatformInv /\ TypeOK /\ [WorkstationNext]_workstationVars => Counted'
  <2> SUFFICES ASSUME Counted, PlatformInv, TypeOK, [WorkstationNext]_workstationVars
               PROVE  Counted'
    OBVIOUS
  <2>1. CASE UNCHANGED platformVars
    BY <2>1 DEF platformVars, Counted
  <2>2. CASE PlatformStep
    <3>1. checkout.commit \in Revision
      BY WorkstationAssumption DEF TypeOK, Content
    <3>. QED
      BY <2>2, <3>1, CountedStep DEF PlatformStep
  <2>. QED
    BY <2>1, <2>2 DEF WorkstationNext, workstationVars
<1>4. WorkstationSpec => []Counted
  BY <1>1, <1>2, <1>3, PlatformInvariant, PTL DEF WorkstationSpec
<1>5. PlatformInv /\ Counted => PlatformTypeOK
  BY DEF PlatformInv, PlatformData, OutcomesKept, Counted, Invocation, Tree, PlatformTypeOK
<1>. QED
  BY <1>1, <1>4, <1>5, PlatformInvariant, PTL DEF WorkstationTypeOK

=============================================================================
