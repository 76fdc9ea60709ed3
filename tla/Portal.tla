-------------------------------- MODULE Portal --------------------------------
(***************************************************************************)
(* The portal process (portal.go, portal_api.go): change plans that are    *)
(* shown, confirmed and dispatched to the broker workflow, composed with   *)
(* its break-glass operations and the break-glass commands (BreakGlass)    *)
(* and with its event stream (EventStream).                                *)
(*                                                                         *)
(* Requests are served concurrently, one handler each; the mutex covers    *)
(* single steps only.  Plans are rendered from the working tree of the     *)
(* local checkout, which its owner edits and pulls meanwhile, and main     *)
(* moves on GitHub.  GitHub may fail, or do what it was asked and not      *)
(* answer.  The process may end and be started again.                      *)
(*                                                                         *)
(* Abstractions: a commit of main is its number; what a request renders to *)
(* is the content it was rendered from: the commit of the checkout and     *)
(* whether tracked files were edited.  Requests that the portal refuses    *)
(* before they change anything are not modelled: a foreign host, a wrong   *)
(* Origin or CSRF token, malformed input, the tenth write of a minute.     *)
(***************************************************************************)
EXTENDS BreakGlass, EventStream, FiniteSets

CONSTANTS
  Handler,      \* requests that plan or submit a change at one time
  Plan,         \* bound: change plans made
  PlanCapacity, \* plans kept (100 in the code)
  MaxCommit,    \* bound: commits on main
  Budgets       \* bounds of one behaviour, to choose from: see budget

ASSUME PortalAssumption ==
  /\ Plan \subseteq Nat \ {0}
  /\ PlanCapacity \in Nat /\ MaxCommit \in Nat

VARIABLES
  session,  \* the launch token is unused, or a browser holds the session, or
            \* neither can be had any more
  plans,    \* the change plans, by ID
  jobs,     \* the handlers of handlePlan and handlePlanSubmit
  checkout, \* the commit checked out, and whether tracked files are edited
  edits,    \* edits made
  main,     \* the commit of main on GitHub
  runs,     \* dispatched runs of the broker workflow, by plan
  budget    \* bounds of this behaviour: plans, operations, requests to act and
            \* edits; are there sessions, does main move, is there a page, may
            \* others broadcast, and does anything happen to the Rollout and
            \* connections?

changeVars == <<session, plans, jobs, checkout, edits, main, runs, budget>>
vars == <<breakVars, streamVars, changeVars>>

-----------------------------------------------------------------------------
(* Data *)

Commit == 0..MaxCommit
Content == [commit: Commit, edited: BOOLEAN]

\* What the broker renders a request from: the commit named by its baseSHA.
CleanContent(base) == [commit |-> base, edited |-> FALSE]

NoPlan == [state |-> "none", base |-> 0, digest |-> CleanContent(0)]

\* disturbed is for the properties: the checkout changed between this
\* submission's look at it and its rendering.
IdleJob == [op |-> "idle", plan |-> 0, base |-> 0, digest |-> CleanContent(0),
            disturbed |-> FALSE]

Op == {"idle", "planning", "claimed", "checked", "rendered", "dispatched"}

TypeOK ==
  /\ BreakTypeOK /\ StreamTypeOK
  /\ session \in {"unlaunched", "open", "over"}
  /\ plans \in [Plan -> [state: {"none", "live", "expired", "used", "deleted"},
                         base: Commit, digest: Content]]
  /\ jobs \in [Handler -> [op: Op, plan: Plan \cup {0}, base: Commit,
                           digest: Content, disturbed: BOOLEAN]]
  /\ checkout \in Content /\ edits \in Nat /\ main \in Commit
  /\ runs \in [Plan -> Nat]
  /\ budget \in Budgets

Init ==
  /\ BreakInit /\ StreamInit
  /\ session = "unlaunched"
  /\ plans = [p \in Plan |-> NoPlan]
  /\ jobs = [h \in Handler |-> IdleJob]
  /\ checkout = CleanContent(0) /\ edits = 0 /\ main = 0
  /\ runs = [p \in Plan |-> 0]
  /\ budget \in Budgets

\* repositoryBaseSHA: no tracked file is edited, and the checkout is on the
\* head of main, which is returned.  Its four git commands are one look: what is
\* edited between the status and the comparison of heads is not seen as such.
BaseSHA(sha) == ~checkout.edited /\ checkout.commit = main /\ sha = main

\* Plans that the map still holds.
Kept == {p \in Plan : plans[p].state \in {"live", "expired", "used"}}

\* expirePlansLocked for change plans.
Swept ==
  [p \in Plan |-> IF plans[p].state \in {"expired", "used"}
                  THEN [NoPlan EXCEPT !.state = "deleted"] ELSE plans[p]]

Idle(h) == jobs' = [jobs EXCEPT ![h] = IdleJob]

-----------------------------------------------------------------------------
(* The session *)

\* handleLaunch: the token opens one session.
Launch ==
  /\ session = "unlaunched" /\ budget.sessions
  /\ session' = "open"
  /\ UNCHANGED <<plans, jobs, checkout, edits, main, runs, budget>>

\* A minute without a launch, or eight hours.
SessionEnds ==
  /\ session \in {"unlaunched", "open"} /\ budget.sessions
  /\ session' = "over"
  /\ UNCHANGED <<plans, jobs, checkout, edits, main, runs, budget>>

-----------------------------------------------------------------------------
(* Planning a change *)

\* handlePlan: the base.
StartPlan(h) ==
  /\ session = "open" /\ jobs[h].op = "idle" /\ budget.plans > 0
  /\ \E sha \in Commit :
       /\ BaseSHA(sha)
       /\ jobs' = [jobs EXCEPT ![h] = [IdleJob EXCEPT !.op = "planning", !.base = sha]]
  /\ UNCHANGED <<session, plans, checkout, edits, main, runs, budget>>

\* handlePlan: RenderChange from the working tree as it is by now, and then,
\* under the lock, the sweep and the new plan.
FinishPlan(h) ==
  /\ jobs[h].op = "planning"
  /\ LET kept == {p \in Plan : Swept[p].state = "live"}
     IN \/ \E p \in Plan :
             /\ p <= budget.plans /\ plans[p].state = "none"
             /\ \A q \in Plan : q < p => plans[q].state # "none"
             /\ Cardinality(kept) < PlanCapacity
             /\ plans' = [Swept EXCEPT ![p] = [state |-> "live", base |-> jobs[h].base,
                                               digest |-> checkout]]
        \/ plans' = Swept /\ Cardinality(kept) >= PlanCapacity
        \/ UNCHANGED plans \* rendering failed
  /\ Idle(h)
  /\ UNCHANGED <<session, checkout, edits, main, runs, budget>>

\* Ten minutes have passed.
PlanExpires(p) ==
  /\ plans[p].state = "live"
  /\ plans' = [plans EXCEPT ![p].state = "expired"]
  /\ UNCHANGED <<session, jobs, checkout, edits, main, runs, budget>>

-----------------------------------------------------------------------------
(* Submitting a plan *)

\* Mutant of Spend: the plan is not marked as used.
LeaveUnused(p) == plans' = plans

Spend(p) == plans' = [plans EXCEPT ![p].state = "used"]

\* handlePlanSubmit up to the unlock.  The plan is used up whatever follows.
Submit(h, p) ==
  /\ session = "open" /\ jobs[h].op = "idle"
  /\ plans[p].state = "live"
  /\ Spend(p)
  /\ jobs' = [jobs EXCEPT ![h] = [IdleJob EXCEPT !.op = "claimed", !.plan = p,
                                    !.base = plans[p].base, !.digest = plans[p].digest]]
  /\ UNCHANGED <<session, checkout, edits, main, runs, budget>>

\* The base must be the plan's, still.
CheckBase(h) ==
  /\ jobs[h].op = "claimed"
  /\ \/ BaseSHA(jobs[h].base) /\ jobs' = [jobs EXCEPT ![h].op = "checked"]
     \/ Idle(h)
  /\ UNCHANGED <<session, plans, checkout, edits, main, runs, budget>>

\* Mutant of SameDigest: the rendering is not compared with the reviewed one.
AnyDigest(h) == jobs[h].op = "checked"

SameDigest(h) == checkout = jobs[h].digest

\* The plan must render to what was reviewed.
RenderAgain(h) ==
  /\ jobs[h].op = "checked"
  /\ \/ SameDigest(h) /\ jobs' = [jobs EXCEPT ![h].op = "rendered"]
     \/ Idle(h)
  /\ UNCHANGED <<session, plans, checkout, edits, main, runs, budget>>

\* verifyFinalization, Encode and the first half of dispatchChange.  Any of
\* them may fail, and the dispatch may fail after it was carried out.
Dispatch(h) ==
  /\ jobs[h].op = "rendered"
  /\ \/ UNCHANGED runs /\ Idle(h)
     \/ /\ runs' = [runs EXCEPT ![jobs[h].plan] = @ + 1]
        /\ Idle(h) \/ jobs' = [jobs EXCEPT ![h].op = "dispatched"]
  /\ UNCHANGED <<session, plans, checkout, edits, main, budget>>

\* The rest of dispatchChange: the run is found within a minute and announced
\* to the pages, or the request times out.
Discover(h, found) ==
  /\ jobs[h].op = "dispatched"
  /\ IF found THEN Broadcast ELSE UNCHANGED streamVars
  /\ Idle(h)
  /\ UNCHANGED <<session, plans, checkout, edits, main, runs, budget>>

-----------------------------------------------------------------------------
(* The owner of the checkout, GitHub, and the process *)

\* Submissions between their look at the checkout and their rendering.
Disturb ==
  [h \in Handler |-> IF jobs[h].op = "checked"
                     THEN [jobs[h] EXCEPT !.disturbed = TRUE] ELSE jobs[h]]

\* A tracked file is edited, or an edit taken back.
Edit ==
  /\ edits < budget.edits
  /\ edits' = edits + 1
  /\ checkout' = [checkout EXCEPT !.edited = ~@]
  /\ jobs' = Disturb
  /\ UNCHANGED <<session, plans, main, runs, budget>>

Pull ==
  /\ checkout.commit < main
  /\ checkout' = [checkout EXCEPT !.commit = main]
  /\ jobs' = Disturb
  /\ UNCHANGED <<session, plans, edits, main, runs, budget>>

MainMoves ==
  /\ budget.mainMoves /\ main < MaxCommit
  /\ main' = main + 1
  /\ UNCHANGED <<session, plans, jobs, checkout, edits, runs, budget>>

\* The process ends and another one is started: plans, operations, events and
\* the session are gone; what was dispatched or recorded is not.
Restart ==
  /\ session' = "unlaunched"
  /\ plans' = [p \in Plan |-> IF plans[p].state = "none" THEN NoPlan
                              ELSE [NoPlan EXCEPT !.state = "deleted"]]
  /\ jobs' = [h \in Handler |-> IdleJob]
  /\ PortalDies /\ StreamStops
  /\ UNCHANGED <<checkout, edits, main, runs, budget>>

-----------------------------------------------------------------------------
(* Composition *)

Change ==
  /\ \/ Launch \/ SessionEnds
     \/ \E h \in Handler :
          \/ StartPlan(h) \/ FinishPlan(h)
          \/ \E p \in Plan : Submit(h, p)
          \/ CheckBase(h) \/ RenderAgain(h) \/ Dispatch(h)
     \/ \E p \in Plan : PlanExpires(p)
     \/ Edit \/ Pull \/ MainMoves
  /\ UNCHANGED <<breakVars, streamVars>>

\* The sweep of handlePlan also deletes operations, which are spent by then.
BreakGlassStep ==
  /\ \/ \E b \in BreakPlan : b <= budget.operations /\ session = "open" /\ Show(b)
     \/ \E a \in Attempt :
          /\ a <= budget.attempts
          /\ \A c \in Attempt : c < a => attempts[c].phase # "unused"
          /\ \/ \E b \in BreakPlan : session = "open" /\ Claim(a, b)
             \/ \E action \in Action : Command(a, action)
             \/ ReadAgain(a) \/ WriteAudit(a) \/ Announce(a) \/ Patch(a)
             \/ CloseAudit(a) \/ CommandDies(a)
             \/ attempts[a].by = "cli" /\ \E announced \in BOOLEAN : Report(a, announced)
             \/ attempts[a].by = "portal" /\ Report(a, FALSE)
     \/ budget.moves /\ budget.attempts > 0 /\ RolloutChanges
  /\ UNCHANGED <<streamVars, changeVars>>

\* handleBreakGlassExecute announces a completed action to the pages.
BreakGlassDone(a) ==
  /\ attempts[a].by = "portal" /\ Report(a, TRUE)
  /\ IF attempts[a].phase = "closed" THEN Broadcast ELSE UNCHANGED streamVars
  /\ UNCHANGED changeVars

Stream ==
  /\ budget.stream
  /\ \/ Connect /\ session = "open"
     \/ (OpenPage \/ Navigate) /\ session = "open"
     \/ WriteReplay \/ WriteQueued \/ Receive \/ ClosePage
     \/ budget.moves /\ (Heartbeat \/ Break)
     \/ budget.others /\ Broadcast
  /\ UNCHANGED <<breakVars, changeVars>>

Next ==
  \/ Change
  \/ BreakGlassStep
  \/ \E a \in Attempt : BreakGlassDone(a)
  \/ \E h \in Handler, found \in BOOLEAN : Discover(h, found) /\ UNCHANGED breakVars
  \/ Stream
  \/ Restart

Spec == Init /\ [][Next]_vars

-----------------------------------------------------------------------------
(* Properties *)

\* docs/portal.md: plans "are single-use".  However many requests submit a
\* plan at once, and whether GitHub answers or not, it becomes one run of the
\* broker at most; a dispatch that is not answered is not repeated.
OneRunPerPlan == \A p \in Plan : runs[p] <= 1

\* docs/portal.md: submission "re-renders and rejects stale or changed plans".
\* What is dispatched is what the operator reviewed: the plan's rendering is
\* the one that the broker makes at the plan's base, although plans are
\* rendered from a working tree that is looked at before (commands_write.go:
\* 244).  The exception is a checkout that changes between the look and the
\* rendering of a submission.
ReviewedIsDispatched ==
  \A h \in Handler :
    jobs[h].op \in {"rendered", "dispatched"} /\ ~jobs[h].disturbed =>
      jobs[h].digest = CleanContent(jobs[h].base)

=============================================================================
