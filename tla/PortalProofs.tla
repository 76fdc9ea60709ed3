----------------------------- MODULE PortalProofs -----------------------------
(***************************************************************************)
(* Proofs about Portal, for every value of its constants: any number of    *)
(* plans, of requests served at a time and of changes to the checkout.     *)
(***************************************************************************)
EXTENDS Portal, BreakGlassProofs, EventStreamProofs

-----------------------------------------------------------------------------
(* The composition *)

\* Every step of the portal is one of the break-glass protocol or leaves it
\* alone.
LEMMA StepIsBreakGlass == [Next]_vars => [BreakNext]_breakVars
<1> SUFFICES ASSUME [Next]_vars PROVE [BreakNext]_breakVars
  OBVIOUS
<1>1. ASSUME BreakGlassStep PROVE BreakNext
  BY <1>1 DEF BreakGlassStep, BreakNext, Act
<1>2. ASSUME NEW a \in Attempt, BreakGlassDone(a) PROVE BreakNext
  BY <1>2 DEF BreakGlassDone, BreakNext, Act
<1>3. ASSUME Restart PROVE BreakNext
  BY <1>3 DEF Restart, BreakNext
<1>. QED
  BY <1>1, <1>2, <1>3 DEF Next, Change, Stream, vars

\* Composed with the rest of the portal, break glass behaves as specified.
THEOREM PortalBreaksGlass == Spec => BreakSpec
<1>1. Init => BreakInit
  BY DEF Init
<1>. QED
  BY <1>1, StepIsBreakGlass, PTL DEF Spec, BreakSpec

\* So its guarantees hold in the portal, whatever else is served meanwhile.
\* In the portal, no mutation without both records of the attempt.
THEOREM PortalRecordsFirst == Spec => []RecordedFirst
BY PortalBreaksGlass, RecordsComeFirst, PTL

\* In the portal, the records of a request that is over are true.
THEOREM PortalRecordsTell == Spec => []RecordsTell
BY PortalBreaksGlass, RecordsAreTrue, PTL

\* In the portal, a request changes what the operator was shown.
THEOREM PortalChangesWhatWasInspected == Spec => OnInspected
BY PortalBreaksGlass, ChangesWhatWasInspected, PTL

\* Every step of the portal is one of the event stream or leaves it alone.
LEMMA StepIsStream == [Next]_vars => [StreamNext]_streamVars
<1> SUFFICES ASSUME [Next]_vars PROVE [StreamNext]_streamVars
  OBVIOUS
<1>1. ASSUME NEW a \in Attempt, BreakGlassDone(a) PROVE [StreamNext]_streamVars
  BY <1>1 DEF BreakGlassDone, StreamNext
<1>2. ASSUME NEW h \in Handler, NEW found \in BOOLEAN, Discover(h, found)
      PROVE  [StreamNext]_streamVars
  BY <1>2 DEF Discover, StreamNext
<1>3. ASSUME Stream PROVE StreamNext
  BY <1>3 DEF Stream, StreamNext
<1>4. ASSUME Restart PROVE StreamNext
  BY <1>4 DEF Restart, StreamNext
<1>5. ASSUME BreakGlassStep PROVE UNCHANGED streamVars
  BY <1>5 DEF BreakGlassStep
<1>6. ASSUME Change PROVE UNCHANGED streamVars
  BY <1>6 DEF Change
<1>. QED
  BY <1>1, <1>2, <1>3, <1>4, <1>5, <1>6 DEF Next, vars

\* Composed with the rest of the portal, the event stream behaves as specified.
THEOREM PortalStreams == Spec => StreamSpec
<1>1. Init => StreamInit
  BY DEF Init
<1>. QED
  BY <1>1, StepIsStream, PTL DEF Spec, StreamSpec

\* In the portal, broadcasts reach a page in order and none twice, and a view that
\* fetches again on every event is not left with an old snapshot, whatever else
\* is served meanwhile.
THEOREM PortalInforms == Spec => []NoneTwice /\ []PageCurrent
BY PortalStreams, BroadcastsComeOnce, PagesAreCurrent, PTL

-----------------------------------------------------------------------------
(* Change plans: types *)

PlanRecord == [state: {"none", "live", "expired", "used", "deleted"},
               base: Commit, digest: Content]

JobRecord == [op: Op, plan: Plan \cup {0}, base: Commit, digest: Content,
              disturbed: BOOLEAN]

ChangeTypeOK ==
  /\ plans \in [Plan -> PlanRecord]
  /\ jobs \in [Handler -> JobRecord]
  /\ checkout \in Content
  /\ main \in Commit
  /\ runs \in [Plan -> Nat]

\* A submission that may still dispatch the plan.
Holds(h, p) == jobs[h].op \in {"claimed", "checked", "rendered"} /\ jobs[h].plan = p

\* Only plans that were submitted are held or dispatched, one submission holds
\* a plan, and no longer when it was dispatched.
Single ==
  /\ \A p \in Plan, h \in Handler :
       Holds(h, p) => /\ plans[p].state \in {"used", "deleted"}
                      /\ runs[p] = 0
                      /\ \A g \in Handler : Holds(g, p) => g = h
  /\ \A p \in Plan : runs[p] # 0 => plans[p].state \in {"used", "deleted"}
  /\ OneRunPerPlan

\* A submission whose checkout was not disturbed looked at the plan's base.
Reviewed ==
  /\ \A h \in Handler :
       jobs[h].op = "checked" /\ ~jobs[h].disturbed =>
         checkout = CleanContent(jobs[h].base)
  /\ ReviewedIsDispatched

ChangeInv == ChangeTypeOK /\ Single /\ Reviewed

\* The initial values have their types.
LEMMA ChangeValues ==
  /\ \A c \in Commit : CleanContent(c) \in Content
  /\ NoPlan \in PlanRecord
  /\ IdleJob \in JobRecord
<1>1. 0 \in Commit
  BY PortalAssumption DEF Commit
<1>2. \A c \in Commit : CleanContent(c) \in Content
  BY DEF CleanContent, Content
<1>. QED
  BY <1>1, <1>2 DEF NoPlan, PlanRecord, IdleJob, JobRecord, Op

\* The invariant holds initially.
LEMMA ChangeInvInit == Init => ChangeInv
<1> SUFFICES ASSUME Init PROVE ChangeInv
  OBVIOUS
<1>1. ChangeTypeOK
  BY ChangeValues, PortalAssumption DEF Init, ChangeTypeOK, Commit
<1>2. Single
  BY DEF Init, Single, Holds, OneRunPerPlan, IdleJob
<1>3. Reviewed
  BY DEF Init, Reviewed, ReviewedIsDispatched, IdleJob
<1>. QED
  BY <1>1, <1>2, <1>3 DEF ChangeInv

\* A handler that goes idle.
LEMMA IdleStep ==
  ASSUME ChangeInv, NEW h \in Handler, Idle(h), UNCHANGED <<plans, checkout, main, runs>>
  PROVE  ChangeInv'
<1>1. jobs' \in [Handler -> JobRecord] /\ jobs'[h] = IdleJob
      /\ \A g \in Handler \ {h} : jobs'[g] = jobs[g]
  BY ChangeValues DEF Idle, ChangeInv, ChangeTypeOK
<1>2. ChangeTypeOK'
  BY <1>1 DEF ChangeInv, ChangeTypeOK
<1>3. \A g \in Handler, p \in Plan : Holds(g, p)' => Holds(g, p)
  BY <1>1 DEF Holds, IdleJob
<1>4. Single'
  BY <1>3 DEF ChangeInv, Single, OneRunPerPlan
<1>5. Reviewed'
  BY <1>1 DEF ChangeInv, Reviewed, ReviewedIsDispatched, IdleJob
<1>. QED
  BY <1>2, <1>4, <1>5 DEF ChangeInv

\* Plans that change in other ways than by being submitted.
LEMMA PlansStep ==
  ASSUME ChangeInv, plans' \in [Plan -> PlanRecord],
         \A p \in Plan : plans[p].state \in {"used", "deleted"} =>
                         plans'[p].state \in {"used", "deleted"},
         UNCHANGED <<jobs, checkout, main, runs>>
  PROVE  ChangeInv'
BY DEF ChangeInv, ChangeTypeOK, Single, Holds, OneRunPerPlan, Reviewed,
       ReviewedIsDispatched

-----------------------------------------------------------------------------
(* Change plans: the steps *)

\* Planning: the base is looked at (portal_api.go:450).
LEMMA StartPlanStep ==
  ASSUME ChangeInv, NEW h \in Handler, StartPlan(h)
  PROVE  ChangeInv'
<1>1. PICK sha \in Commit :
        jobs' = [jobs EXCEPT ![h] = [IdleJob EXCEPT !.op = "planning", !.base = sha]]
  BY DEF StartPlan
<1> DEFINE r == [IdleJob EXCEPT !.op = "planning", !.base = sha]
<1>2. r \in JobRecord
  BY ChangeValues DEF JobRecord, Op
<1>3. r.op = "planning"
  BY DEF IdleJob
<1>4. jobs' \in [Handler -> JobRecord] /\ jobs'[h] = r
      /\ \A g \in Handler \ {h} : jobs'[g] = jobs[g]
  BY <1>1, <1>2 DEF ChangeInv, ChangeTypeOK
<1>5. ChangeTypeOK'
  BY <1>4 DEF StartPlan, ChangeInv, ChangeTypeOK
<1>6. \A g \in Handler, p \in Plan : Holds(g, p)' => Holds(g, p)
  BY <1>3, <1>4 DEF Holds
<1>7. Single'
  BY <1>6 DEF StartPlan, ChangeInv, Single, OneRunPerPlan
<1>8. Reviewed'
  BY <1>3, <1>4 DEF StartPlan, ChangeInv, Reviewed, ReviewedIsDispatched
<1>. QED
  BY <1>5, <1>7, <1>8 DEF ChangeInv

\* The plans after the sweep.
LEMMA SweptType ==
  ASSUME ChangeTypeOK
  PROVE  /\ Swept \in [Plan -> PlanRecord]
         /\ \A p \in Plan : plans[p].state \in {"used", "deleted"} => Swept[p].state = "deleted"
<1>1. [NoPlan EXCEPT !.state = "deleted"] \in PlanRecord
  BY ChangeValues DEF PlanRecord
<1>2. [NoPlan EXCEPT !.state = "deleted"].state = "deleted"
  BY DEF NoPlan
<1>. QED
  BY <1>1, <1>2 DEF ChangeTypeOK, Swept

\* Planning: the rendering, the sweep and the new plan.
LEMMA FinishPlanStep ==
  ASSUME ChangeInv, NEW h \in Handler, FinishPlan(h)
  PROVE  ChangeInv'
<1>1. ChangeTypeOK /\ jobs[h] \in JobRecord
  BY DEF ChangeInv, ChangeTypeOK
<1>2. ASSUME NEW q \in [Plan -> PlanRecord], plans' = q,
             \A p \in Plan : plans[p].state \in {"used", "deleted"} =>
                             q[p].state \in {"used", "deleted"}
      PROVE  ChangeInv'
  <2>1. jobs' \in [Handler -> JobRecord] /\ jobs'[h] = IdleJob
        /\ \A g \in Handler \ {h} : jobs'[g] = jobs[g]
    BY <1>1, ChangeValues DEF FinishPlan, Idle, ChangeTypeOK
  <2>2. ChangeTypeOK'
    BY <1>1, <1>2, <2>1 DEF FinishPlan, ChangeTypeOK
  <2>3. \A g \in Handler, p \in Plan : Holds(g, p)' => Holds(g, p)
    BY <2>1 DEF Holds, IdleJob
  <2>4. Single'
    BY <1>2, <2>3 DEF FinishPlan, ChangeInv, Single, OneRunPerPlan
  <2>5. Reviewed'
    BY <2>1 DEF FinishPlan, ChangeInv, Reviewed, ReviewedIsDispatched, IdleJob
  <2>. QED
    BY <2>2, <2>4, <2>5 DEF ChangeInv
<1>3. CASE plans' = Swept
  BY <1>1, <1>2, <1>3, SweptType
<1>4. CASE plans' = plans
  BY <1>1, <1>2, <1>4 DEF ChangeTypeOK
<1>5. ASSUME NEW p \in Plan, plans[p].state = "none",
             plans' = [Swept EXCEPT ![p] = [state |-> "live", base |-> jobs[h].base,
                                            digest |-> checkout]]
      PROVE  ChangeInv'
  <2> DEFINE q == [Swept EXCEPT ![p] = [state |-> "live", base |-> jobs[h].base,
                                        digest |-> checkout]]
  <2>1. [state |-> "live", base |-> jobs[h].base, digest |-> checkout] \in PlanRecord
    BY <1>1 DEF PlanRecord, JobRecord, ChangeTypeOK
  <2>2. q \in [Plan -> PlanRecord]
    BY <1>1, <2>1, SweptType
  <2>3. \A o \in Plan : plans[o].state \in {"used", "deleted"} =>
                         q[o].state \in {"used", "deleted"}
    BY <1>1, <1>5, SweptType
  <2>. QED
    BY <1>2, <1>5, <2>2, <2>3
<1>. QED
  BY <1>3, <1>4, <1>5 DEF FinishPlan

\* A plan expires.
LEMMA PlanExpiresStep ==
  ASSUME ChangeInv, NEW p \in Plan, PlanExpires(p)
  PROVE  ChangeInv'
<1>1. plans' \in [Plan -> PlanRecord]
  BY DEF PlanExpires, ChangeInv, ChangeTypeOK, PlanRecord
<1>2. \A q \in Plan : plans[q].state \in {"used", "deleted"} => plans'[q] = plans[q]
  BY DEF PlanExpires, ChangeInv, ChangeTypeOK
<1>. QED
  BY <1>1, <1>2, PlansStep DEF PlanExpires

\* A plan is submitted: from now on one handler holds it.
LEMMA SubmitStep ==
  ASSUME ChangeInv, NEW h \in Handler, NEW p \in Plan, Submit(h, p)
  PROVE  ChangeInv'
<1> DEFINE r == [IdleJob EXCEPT !.op = "claimed", !.plan = p,
                   !.base = plans[p].base, !.digest = plans[p].digest]
<1>1. ChangeTypeOK /\ plans[p] \in PlanRecord
  BY DEF ChangeInv, ChangeTypeOK
<1>2. r \in JobRecord /\ r.op = "claimed" /\ r.plan = p
  BY <1>1, ChangeValues DEF JobRecord, PlanRecord, Op
<1>3. jobs' \in [Handler -> JobRecord] /\ jobs'[h] = r
      /\ \A g \in Handler \ {h} : jobs'[g] = jobs[g]
  BY <1>1, <1>2 DEF Submit, ChangeTypeOK
<1>4. /\ plans' \in [Plan -> PlanRecord] /\ plans'[p].state = "used"
      /\ \A q \in Plan \ {p} : plans'[q] = plans[q]
  BY <1>1 DEF Submit, Spend, ChangeTypeOK, PlanRecord
<1>5. ChangeTypeOK'
  BY <1>1, <1>3, <1>4 DEF Submit, ChangeTypeOK
<1>6. /\ runs[p] = 0 /\ \A g \in Handler : ~Holds(g, p)
  BY DEF Submit, ChangeInv, Single
<1>7. /\ \A g \in Handler : Holds(g, p)' => g = h
      /\ \A g \in Handler, q \in Plan \ {p} : Holds(g, q)' => Holds(g, q)
  BY <1>2, <1>3, <1>6 DEF Holds
<1>8. Single'
  BY <1>4, <1>6, <1>7 DEF Submit, ChangeInv, Single, OneRunPerPlan
<1>9. Reviewed'
  BY <1>2, <1>3 DEF Submit, ChangeInv, Reviewed, ReviewedIsDispatched
<1>. QED
  BY <1>5, <1>8, <1>9 DEF ChangeInv

\* A handler that goes on to another step of its submission.
LEMMA OnwardStep ==
  ASSUME ChangeInv, NEW h \in Handler, NEW from \in Op, NEW op \in {"checked", "rendered"},
         jobs[h].op = from, from \in {"claimed", "checked"},
         jobs' = [jobs EXCEPT ![h].op = op],
         UNCHANGED <<plans, checkout, main, runs>>,
         ~jobs[h].disturbed =>
           IF op = "checked" THEN checkout = CleanContent(jobs[h].base)
                             ELSE jobs[h].digest = CleanContent(jobs[h].base)
  PROVE  ChangeInv'
<1>1. ChangeTypeOK /\ jobs[h] \in JobRecord
  BY DEF ChangeInv, ChangeTypeOK
<1>2. [jobs[h] EXCEPT !.op = op] \in JobRecord
  BY <1>1 DEF JobRecord, Op
<1>3. /\ jobs' \in [Handler -> JobRecord] /\ jobs'[h] = [jobs[h] EXCEPT !.op = op]
      /\ \A g \in Handler \ {h} : jobs'[g] = jobs[g]
  BY <1>1, <1>2 DEF ChangeTypeOK
<1>4. /\ jobs'[h].op = op /\ jobs'[h].plan = jobs[h].plan /\ jobs'[h].base = jobs[h].base
      /\ jobs'[h].digest = jobs[h].digest /\ jobs'[h].disturbed = jobs[h].disturbed
  BY <1>1, <1>3 DEF JobRecord
<1>5. ChangeTypeOK'
  BY <1>1, <1>3 DEF ChangeTypeOK
<1>6. \A g \in Handler, p \in Plan : Holds(g, p)' => Holds(g, p)
  BY <1>3, <1>4 DEF Holds
<1>7. Single'
  BY <1>6 DEF ChangeInv, Single, OneRunPerPlan
<1>8. Reviewed'
  BY <1>3, <1>4 DEF ChangeInv, Reviewed, ReviewedIsDispatched
<1>. QED
  BY <1>5, <1>7, <1>8 DEF ChangeInv

\* Submission: the base must be the plan's.
LEMMA CheckBaseStep ==
  ASSUME ChangeInv, NEW h \in Handler, CheckBase(h)
  PROVE  ChangeInv'
<1>1. CASE Idle(h)
  BY <1>1, IdleStep DEF CheckBase
<1>2. CASE BaseSHA(jobs[h].base) /\ jobs' = [jobs EXCEPT ![h].op = "checked"]
  <2>1. checkout = CleanContent(jobs[h].base)
    BY <1>2 DEF BaseSHA, CleanContent, ChangeInv, ChangeTypeOK, Content
  <2>. QED
    BY <1>2, <2>1, OnwardStep DEF CheckBase, Op
<1>. QED
  BY <1>1, <1>2 DEF CheckBase

\* Submission: the rendering must be the reviewed one.
LEMMA RenderAgainStep ==
  ASSUME ChangeInv, NEW h \in Handler, RenderAgain(h)
  PROVE  ChangeInv'
<1>1. CASE Idle(h)
  BY <1>1, IdleStep DEF RenderAgain
<1>2. CASE SameDigest(h) /\ jobs' = [jobs EXCEPT ![h].op = "rendered"]
  <2>1. ~jobs[h].disturbed => jobs[h].digest = CleanContent(jobs[h].base)
    BY <1>2 DEF RenderAgain, SameDigest, ChangeInv, Reviewed
  <2>. QED
    BY <1>2, <2>1, OnwardStep DEF RenderAgain, Op
<1>. QED
  BY <1>1, <1>2 DEF RenderAgain

\* Submission: the broker's run, with or without an answer.
LEMMA DispatchStep ==
  ASSUME ChangeInv, NEW h \in Handler, Dispatch(h)
  PROVE  ChangeInv'
<1>1. ChangeTypeOK /\ jobs[h] \in JobRecord
  BY DEF ChangeInv, ChangeTypeOK
<1>p. PICK p : p = jobs[h].plan
  OBVIOUS
<1>2. CASE UNCHANGED runs /\ Idle(h)
  BY <1>2, IdleStep DEF Dispatch
<1>3. CASE /\ runs' = [runs EXCEPT ![p] = @ + 1]
           /\ Idle(h) \/ jobs' = [jobs EXCEPT ![h].op = "dispatched"]
  <2>1. [jobs[h] EXCEPT !.op = "dispatched"] \in JobRecord
    BY <1>1 DEF JobRecord, Op
  <2>2. /\ jobs' \in [Handler -> JobRecord]
        /\ jobs'[h] \in {IdleJob, [jobs[h] EXCEPT !.op = "dispatched"]}
        /\ \A g \in Handler \ {h} : jobs'[g] = jobs[g]
    BY <1>1, <1>3, <2>1, ChangeValues DEF Idle, ChangeTypeOK
  <2>3. jobs'[h].op \in {"idle", "dispatched"}
        /\ (jobs'[h].op = "dispatched" => /\ jobs'[h].base = jobs[h].base
                                          /\ jobs'[h].digest = jobs[h].digest
                                          /\ jobs'[h].disturbed = jobs[h].disturbed)
    BY <1>1, <2>2 DEF IdleJob, JobRecord
  <2>4. runs' \in [Plan -> Nat] /\ \A q \in Plan \ {p} : runs'[q] = runs[q]
    <3>1. \A q \in Plan : runs[q] + 1 \in Nat
      BY <1>1 DEF ChangeTypeOK
    <3>. QED
      BY <1>1, <1>3, <3>1 DEF ChangeTypeOK
  <2>5. ChangeTypeOK'
    BY <1>1, <2>2, <2>4 DEF Dispatch, ChangeTypeOK
  <2>6. \A g \in Handler, q \in Plan : Holds(g, q)' => Holds(g, q) /\ g # h
    BY <2>2, <2>3 DEF Holds
  <2>7. ASSUME p \in Plan
        PROVE  /\ runs'[p] = 1 /\ plans[p].state \in {"used", "deleted"}
               /\ \A g \in Handler : ~Holds(g, p)'
    <3>1. Holds(h, p)
      BY <1>p DEF Dispatch, Holds
    <3>2. runs[p] = 0 /\ plans[p].state \in {"used", "deleted"}
          /\ \A g \in Handler : Holds(g, p) => g = h
      BY <2>7, <3>1 DEF ChangeInv, Single
    <3>3. runs'[p] = 1
      BY <1>1, <1>3, <2>7, <3>2 DEF ChangeTypeOK
    <3>. QED
      BY <2>6, <2>7, <3>2, <3>3
  <2>8. Single'
    <3>1. plans' = plans
      BY DEF Dispatch
    <3>2. \A q \in Plan : runs'[q] <= 1
      BY <2>4, <2>7 DEF ChangeInv, Single, OneRunPerPlan
    <3>3. \A q \in Plan : runs'[q] # 0 => plans[q].state \in {"used", "deleted"}
      BY <2>4, <2>7 DEF ChangeInv, Single
    <3>4. \A q \in Plan, g \in Handler : Holds(g, q)' =>
            /\ plans[q].state \in {"used", "deleted"} /\ runs'[q] = 0
            /\ \A f \in Handler : Holds(f, q)' => f = g
      BY <2>4, <2>6, <2>7 DEF ChangeInv, Single
    <3>. QED
      BY <3>1, <3>2, <3>3, <3>4 DEF Single, OneRunPerPlan
  <2>9. Reviewed'
    BY <1>1, <2>2, <2>3 DEF Dispatch, ChangeInv, Reviewed, ReviewedIsDispatched
  <2>. QED
    BY <2>5, <2>8, <2>9 DEF ChangeInv
<1>. QED
  BY <1>2, <1>3, <1>p DEF Dispatch

\* The checkout changes, and disturbs the submissions that looked at it.
LEMMA CheckoutStep ==
  ASSUME ChangeInv, jobs' = Disturb, checkout' \in Content, UNCHANGED <<plans, main, runs>>
  PROVE  ChangeInv'
<1>1. ChangeTypeOK
  BY DEF ChangeInv
<1>2. ASSUME NEW h \in Handler
      PROVE  /\ jobs'[h] \in JobRecord
             /\ jobs'[h].op = jobs[h].op /\ jobs'[h].plan = jobs[h].plan
             /\ jobs'[h].base = jobs[h].base /\ jobs'[h].digest = jobs[h].digest
             /\ jobs'[h].disturbed = (jobs[h].disturbed \/ jobs[h].op = "checked")
  BY <1>1 DEF Disturb, ChangeTypeOK, JobRecord
<1>3. ChangeTypeOK'
  BY <1>1, <1>2 DEF Disturb, ChangeTypeOK
<1>4. \A g \in Handler, p \in Plan : Holds(g, p)' <=> Holds(g, p)
  BY <1>2 DEF Holds
<1>5. Single'
  BY <1>4 DEF ChangeInv, Single, OneRunPerPlan
<1>6. Reviewed'
  BY <1>2 DEF ChangeInv, Reviewed, ReviewedIsDispatched
<1>. QED
  BY <1>3, <1>5, <1>6 DEF ChangeInv

\* The portal's process ends: plans and handlers are gone.
LEMMA RestartStep ==
  ASSUME ChangeInv, Restart
  PROVE  ChangeInv'
<1>1. ChangeTypeOK
  BY DEF ChangeInv
<1>2. [NoPlan EXCEPT !.state = "deleted"] \in PlanRecord
      /\ [NoPlan EXCEPT !.state = "deleted"].state = "deleted"
  BY ChangeValues DEF PlanRecord, NoPlan
<1>3. /\ plans' \in [Plan -> PlanRecord]
      /\ \A p \in Plan : plans[p].state # "none" => plans'[p].state = "deleted"
  BY <1>1, <1>2, ChangeValues DEF Restart, ChangeTypeOK
<1>4. jobs' = [h \in Handler |-> IdleJob] /\ UNCHANGED <<checkout, main, runs>>
  BY DEF Restart
<1>5. ChangeTypeOK'
  BY <1>1, <1>3, <1>4, ChangeValues DEF ChangeTypeOK
<1>6. Single'
  BY <1>3, <1>4 DEF ChangeInv, Single, Holds, OneRunPerPlan, IdleJob
<1>7. Reviewed'
  BY <1>4 DEF Reviewed, ReviewedIsDispatched, IdleJob
<1>. QED
  BY <1>5, <1>6, <1>7 DEF ChangeInv

-----------------------------------------------------------------------------
(* Change plans: the theorems *)

\* Every step of the change plans preserves the invariant.
LEMMA ChangeStep ==
  ASSUME ChangeInv, Change
  PROVE  ChangeInv'
<1>1. CASE Launch \/ SessionEnds
  BY <1>1 DEF Launch, SessionEnds, ChangeInv, ChangeTypeOK, Single, Holds, OneRunPerPlan,
              Reviewed, ReviewedIsDispatched
<1>2. ASSUME NEW h \in Handler,
             \/ StartPlan(h) \/ FinishPlan(h)
             \/ \E p \in Plan : Submit(h, p)
             \/ CheckBase(h) \/ RenderAgain(h) \/ Dispatch(h)
      PROVE  ChangeInv'
  BY <1>2, StartPlanStep, FinishPlanStep, SubmitStep, CheckBaseStep, RenderAgainStep,
     DispatchStep
<1>3. ASSUME NEW p \in Plan, PlanExpires(p) PROVE ChangeInv'
  BY <1>3, PlanExpiresStep
<1>4. CASE Edit \/ Pull
  <2>1. checkout' \in Content
    BY <1>4 DEF Edit, Pull, ChangeInv, ChangeTypeOK, Content
  <2>. QED
    BY <1>4, <2>1, CheckoutStep DEF Edit, Pull
<1>5. CASE MainMoves
  <2>1. main' \in Commit
    BY <1>5, PortalAssumption DEF MainMoves, ChangeInv, ChangeTypeOK, Commit
  <2>. QED
    BY <1>5, <2>1 DEF MainMoves, ChangeInv, ChangeTypeOK, Single, Holds, OneRunPerPlan,
                      Reviewed, ReviewedIsDispatched
<1>. QED
  BY <1>1, <1>2, <1>3, <1>4, <1>5 DEF Change

\* Every step of the portal preserves the invariant.
LEMMA ChangeInvNext == ChangeInv /\ [Next]_vars => ChangeInv'
<1> SUFFICES ASSUME ChangeInv, [Next]_vars PROVE ChangeInv'
  OBVIOUS
<1>1. CASE Change
  BY <1>1, ChangeStep
<1>2. ASSUME UNCHANGED changeVars PROVE ChangeInv'
  BY <1>2 DEF changeVars, ChangeInv, ChangeTypeOK, Single, Holds, OneRunPerPlan,
              Reviewed, ReviewedIsDispatched
<1>3. ASSUME NEW h \in Handler, NEW found \in BOOLEAN, Discover(h, found) PROVE ChangeInv'
  BY <1>3, IdleStep DEF Discover
<1>4. CASE Restart
  BY <1>4, RestartStep
<1>. QED
  BY <1>1, <1>2, <1>3, <1>4
  DEF Next, BreakGlassStep, BreakGlassDone, Stream, vars

\* The invariant of the change plans, in every state of the portal.
THEOREM ChangeInvariant == Spec => []ChangeInv
BY ChangeInvInit, ChangeInvNext, PTL DEF Spec

\* A plan becomes one run of the broker at most (portal_api.go:501-509), for
\* any number of concurrent submissions, failures and restarts.
THEOREM PlansRunOnce == Spec => []OneRunPerPlan
BY ChangeInvariant, PTL DEF ChangeInv, Single

\* What is dispatched renders to what was reviewed, unless the checkout changed
\* between a submission's look at it and its rendering.
THEOREM DispatchesWhatWasReviewed == Spec => []ReviewedIsDispatched
BY ChangeInvariant, PTL DEF ChangeInv, Reviewed

-----------------------------------------------------------------------------
(* Types *)

\* The rest of the portal's state.
OwnTypes == session \in {"unlaunched", "open", "over"} /\ edits \in Nat /\ budget \in Budgets

\* It keeps its types.
LEMMA OwnTypesNext == OwnTypes /\ [Next]_vars => OwnTypes'
<1> SUFFICES ASSUME OwnTypes, [Next]_vars PROVE OwnTypes'
  OBVIOUS
<1> USE DEF OwnTypes
<1>1. ASSUME NEW h \in Handler,
             \/ StartPlan(h) \/ FinishPlan(h)
             \/ \E p \in Plan : Submit(h, p)
             \/ CheckBase(h) \/ RenderAgain(h) \/ Dispatch(h)
      PROVE  OwnTypes'
  BY <1>1 DEF StartPlan, FinishPlan, Submit, CheckBase, RenderAgain, Dispatch
<1>2. ASSUME NEW p \in Plan, PlanExpires(p) PROVE OwnTypes'
  BY <1>2 DEF PlanExpires
<1>3. CASE Launch \/ SessionEnds \/ Edit \/ Pull \/ MainMoves \/ Restart
  BY <1>3 DEF Launch, SessionEnds, Edit, Pull, MainMoves, Restart
<1>4. ASSUME NEW h \in Handler, NEW found \in BOOLEAN, Discover(h, found) PROVE OwnTypes'
  BY <1>4 DEF Discover
<1>5. ASSUME UNCHANGED changeVars PROVE OwnTypes'
  BY <1>5 DEF changeVars
<1>. QED
  BY <1>1, <1>2, <1>3, <1>4, <1>5 DEF Next, Change, BreakGlassStep, BreakGlassDone, Stream, vars

\* Every variable of the portal keeps its type, those of break glass and of the
\* event stream included.
THEOREM PortalTypes == Spec => []TypeOK
<1>1. Spec => []OwnTypes
  <2>1. Init => OwnTypes
    BY DEF Init, OwnTypes
  <2>. QED
    BY <2>1, OwnTypesNext, PTL DEF Spec
<1>2. Spec => []BreakTypeOK
  BY PortalBreaksGlass, BreakTypes, PTL
<1>3. Spec => []StreamTypeOK
  <2>1. StreamInv => StreamTypeOK
    BY DEF StreamInv
  <2>. QED
    BY <2>1, PortalStreams, StreamSafe, PTL
<1>4. OwnTypes /\ BreakTypeOK /\ StreamTypeOK /\ ChangeInv => TypeOK
  BY DEF OwnTypes, ChangeInv, ChangeTypeOK, PlanRecord, JobRecord, TypeOK
<1>. QED
  BY <1>1, <1>2, <1>3, <1>4, ChangeInvariant, PTL

=============================================================================
