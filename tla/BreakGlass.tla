------------------------------ MODULE BreakGlass ------------------------------
(***************************************************************************)
(* Break glass: promoting or aborting a canary by writing the status of    *)
(* its Argo Rollout, the only mutation platformctl makes outside Git.  The *)
(* commands `app promote` and `app abort` (commands_breakglass.go) read    *)
(* the Rollout and act at once; the portal (portal_api.go) first shows     *)
(* what it read and acts when the operator confirms.  Both write a local   *)
(* audit record and a Kubernetes Event before the mutation, and close them *)
(* after it.                                                               *)
(*                                                                         *)
(* Any request to the API server may fail, also after it was carried out,  *)
(* any write of the audit file may fail, and either process may end at any *)
(* time.  Meanwhile the Rollouts controller, Git and other operators       *)
(* change the Rollout.                                                     *)
(*                                                                         *)
(* Abstractions: a Rollout is what breakGlassPatch reads of it; a request  *)
(* that is refused before it changes anything, or for its form, is not     *)
(* modelled.                                                               *)
(***************************************************************************)
EXTENDS Naturals

CONSTANTS
  Attempt,     \* requests to act, by their request ID
  BreakPlan,   \* operations that the portal may show
  MaxRevision, \* bound: changes of the Rollout by others
  MaxStep      \* steps of the canary

ASSUME BreakAssumption ==
  /\ MaxRevision \in Nat
  /\ MaxStep \in Nat

VARIABLES
  rollout,    \* the Rollout in the cluster
  breakPlans, \* the portal's operations, by token
  attempts,   \* the requests under way
  audit,      \* the Result in the audit file of each request
  kubeEvents  \* the Events recorded on the Rollout: request and stage

breakVars == <<rollout, breakPlans, attempts, audit, kubeEvents>>

-----------------------------------------------------------------------------
(* Data *)

\* candidate: currentPodHash is not stableRS.  pause: no pauseConditions, those
\* of a step, or those of an inconclusive analysis, with controllerPause.
\* others counts, for the bound, the changes that were not break glass.
Rollout == [uid: Nat, revision: Nat, others: 0..MaxRevision,
            candidate: BOOLEAN, abort: BOOLEAN,
            pause: {"none", "step", "inconclusive"}, step: Nat]

Action == {"promote", "abort"}

NoRollout == [uid |-> 0, revision |-> 0, others |-> 0, candidate |-> FALSE,
              abort |-> FALSE, pause |-> "none", step |-> 0]

\* breakGlassPatch: may the action be taken on this Rollout?  A canary always
\* has a step index, so promoting one is never refused for want of a pause or a
\* step; the refusal of a Rollout with spec.paused is left out, which allows more
\* than the code does.
Allowed(action, r) == action = "abort" => ~r.abort /\ r.candidate

\* What the patch that was made for the Rollout seen makes of another one.
\* Promoting a canary that was running skips its step; one that was paused at
\* a step goes on with it.
Patched(action, seen, r) ==
  IF action = "abort" THEN [r EXCEPT !.abort = TRUE]
  ELSE [r EXCEPT !.pause = "none",
                 !.step = IF seen.pause = "step" THEN @ ELSE seen.step + 1]

NoBreakPlan == [state |-> "unused", action |-> "abort", seen |-> NoRollout]

\* A request: who makes it, how far it is, and the Rollout it rests on, which
\* is the one shown by the portal or the one read by the command.  For the
\* properties: was the Rollout changed, was the answer to that lost, and did
\* something fail that leaves the records open?
NoAttempt == [by |-> "cli", phase |-> "unused", action |-> "abort",
              seen |-> NoRollout,
              applied |-> FALSE, lost |-> FALSE, cut |-> FALSE]

PlanState == {"unused", "live", "spent"}

AttemptPhase == {"unused", "claimed", "read", "audited", "announced",
                 "applied", "refused", "closed", "failed", "over"}

Stage == {"Attempted", "Failed", "Completed"}

\* No record, an empty one, or what it says.
Result == Stage \cup {"None", "Torn"}

BreakTypeOK ==
  /\ rollout \in Rollout
  /\ breakPlans \in [BreakPlan -> [state: PlanState, action: Action, seen: Rollout]]
  /\ attempts \in [Attempt -> [by: {"cli", "portal"}, phase: AttemptPhase,
                               action: Action, seen: Rollout, applied: BOOLEAN,
                               lost: BOOLEAN, cut: BOOLEAN]]
  /\ audit \in [Attempt -> Result]
  /\ kubeEvents \subseteq Attempt \X Stage

\* A canary is under way.
BreakInit ==
  /\ rollout = [uid |-> 1, revision |-> 1, others |-> 0, candidate |-> TRUE,
                abort |-> FALSE, pause |-> "none", step |-> 0]
  /\ breakPlans = [b \in BreakPlan |-> NoBreakPlan]
  /\ attempts = [a \in Attempt |-> NoAttempt]
  /\ audit = [a \in Attempt |-> "None"]
  /\ kubeEvents = {}

Goto(a, phase) == attempts' = [attempts EXCEPT ![a].phase = phase]

\* A request that is over keeps what the properties look at.
Ended(attempt) ==
  [NoAttempt EXCEPT !.phase = "over", !.applied = attempt.applied,
                    !.lost = attempt.lost, !.cut = attempt.cut]

End(a) == attempts' = [attempts EXCEPT ![a] = Ended(@)]

\* The request ends and leaves its records as they are.
CutShort(a) == attempts' = [attempts EXCEPT ![a] = [Ended(@) EXCEPT !.cut = TRUE]]

-----------------------------------------------------------------------------
(* The portal shows and confirms *)

\* handleBreakGlassPlan.
Inspect(b, action) ==
  /\ breakPlans[b].state = "unused"
  /\ Allowed(action, rollout)
  /\ breakPlans' = [breakPlans EXCEPT ![b] = [state |-> "live", action |-> action,
                                              seen |-> rollout]]
  /\ UNCHANGED <<rollout, attempts, audit, kubeEvents>>

\* Two minutes have passed.
BreakPlanExpires(b) ==
  /\ breakPlans[b].state = "live"
  /\ breakPlans' = [breakPlans EXCEPT ![b] = [NoBreakPlan EXCEPT !.state = "spent"]]
  /\ UNCHANGED <<rollout, attempts, audit, kubeEvents>>

\* handleBreakGlassExecute up to the unlock: whoever comes second finds the
\* operation used.
Claim(a, b) ==
  /\ attempts[a].phase = "unused"
  /\ breakPlans[b].state = "live"
  /\ breakPlans' = [breakPlans EXCEPT ![b] = [NoBreakPlan EXCEPT !.state = "spent"]]
  /\ attempts' = [attempts EXCEPT ![a] =
       [NoAttempt EXCEPT !.by = "portal", !.phase = "claimed",
                         !.action = breakPlans[b].action, !.seen = breakPlans[b].seen]]
  /\ UNCHANGED <<rollout, audit, kubeEvents>>

\* The Rollout is read again and must be the one that was shown.
ReadAgain(a) ==
  /\ attempts[a].phase = "claimed"
  /\ \/ End(a)
     \/ /\ rollout.revision = attempts[a].seen.revision
        /\ rollout.uid = attempts[a].seen.uid
        /\ Allowed(attempts[a].action, rollout)
        /\ Goto(a, "read")
  /\ UNCHANGED <<rollout, breakPlans, audit, kubeEvents>>

\* newBreakGlassCommand up to breakGlassPatch.
Command(a, action) ==
  /\ attempts[a].phase = "unused"
  /\ Allowed(action, rollout)
  /\ attempts' = [attempts EXCEPT ![a] =
       [NoAttempt EXCEPT !.phase = "read", !.action = action, !.seen = rollout]]
  /\ UNCHANGED <<rollout, breakPlans, audit, kubeEvents>>

-----------------------------------------------------------------------------
(* The records and the mutation *)

\* os.WriteFile empties the file before it writes: a write that fails, or that
\* the end of the process cuts short, leaves the record as it was or empty.
WriteFails(a) == audit' = audit \/ audit' = [audit EXCEPT ![a] = "Torn"]

\* Without an audit record nothing is done.
WriteAudit(a) ==
  /\ attempts[a].phase = "read"
  /\ \/ /\ audit' = [audit EXCEPT ![a] = "Attempted"]
        /\ Goto(a, "audited")
     \/ WriteFails(a) /\ CutShort(a)
  /\ UNCHANGED <<rollout, breakPlans, kubeEvents>>

\* The Event of a stage is created, or not, whatever the answer says.
Recorded(a, stage) ==
  \/ kubeEvents' = kubeEvents \cup {<<a, stage>>}
  \/ UNCHANGED kubeEvents

\* Mutant of AnnounceFails: the failure is ignored.
AnnounceIgnored(a) ==
  /\ Goto(a, "announced")
  /\ Recorded(a, "Attempted")
  /\ UNCHANGED audit

\* Without the Event nothing is done either.  The command then closes its
\* record; the portal leaves it open.
AnnounceFails(a) ==
  /\ Recorded(a, "Attempted")
  /\ \/ /\ attempts[a].by = "cli"
        /\ \/ audit' = [audit EXCEPT ![a] = "Failed"] /\ End(a)
           \/ WriteFails(a) /\ CutShort(a)
     \/ CutShort(a) /\ UNCHANGED audit

Announce(a) ==
  /\ attempts[a].phase = "audited"
  /\ \/ /\ kubeEvents' = kubeEvents \cup {<<a, "Attempted">>}
        /\ Goto(a, "announced")
        /\ UNCHANGED audit
     \/ AnnounceFails(a)
  /\ UNCHANGED <<rollout, breakPlans>>

\* Mutant of TestPasses: the patch has no test.
TestOmitted(a) == attempts[a].phase = "announced"

\* PatchStatus begins with a test of the resource version.
TestPasses(a) == rollout.revision = attempts[a].seen.revision

\* The patch is applied or not; without an answer it is taken for failed.
Patch(a) ==
  /\ attempts[a].phase = "announced"
  /\ \/ /\ Goto(a, "refused")
        /\ UNCHANGED rollout
     \/ /\ TestPasses(a)
        /\ rollout' = [Patched(attempts[a].action, attempts[a].seen, rollout)
                          EXCEPT !.revision = @ + 1]
        /\ \/ attempts' = [attempts EXCEPT ![a].phase = "applied", ![a].applied = TRUE]
           \/ attempts' = [attempts EXCEPT ![a].phase = "refused", ![a].applied = TRUE,
                                           ![a].lost = TRUE]
  /\ UNCHANGED <<breakPlans, audit, kubeEvents>>

\* Mutant of CloseAudit: a success is reported although its record is open.
CloseAuditLoosely(a) ==
  /\ attempts[a].phase \in {"applied", "refused"}
  /\ \E written \in BOOLEAN :
       LET success == attempts[a].phase = "applied"
       IN /\ IF written
             THEN audit' = [audit EXCEPT ![a] = IF success THEN "Completed" ELSE "Failed"]
             ELSE WriteFails(a)
          /\ attempts' = [attempts EXCEPT
               ![a].phase = IF success THEN "closed" ELSE "failed", ![a].cut = ~written]
  /\ UNCHANGED <<rollout, breakPlans, kubeEvents>>

\* The record is closed.  When that fails after a success, the request stops
\* there; after a failure it goes on.
CloseAudit(a) ==
  /\ \/ /\ attempts[a].phase = "applied"
        /\ \/ /\ audit' = [audit EXCEPT ![a] = "Completed"]
              /\ Goto(a, "closed")
           \/ WriteFails(a) /\ CutShort(a)
     \/ /\ attempts[a].phase = "refused"
        /\ \/ /\ audit' = [audit EXCEPT ![a] = "Failed"]
              /\ Goto(a, "failed")
           \/ /\ attempts' = [attempts EXCEPT ![a].phase = "failed", ![a].cut = TRUE]
              /\ WriteFails(a)
  /\ UNCHANGED <<rollout, breakPlans, kubeEvents>>

\* The last Event.  announced tells whether its creation was answered.
Report(a, announced) ==
  /\ attempts[a].phase \in {"closed", "failed"}
  /\ LET stage == IF attempts[a].phase = "closed" THEN "Completed" ELSE "Failed"
     IN IF announced THEN kubeEvents' = kubeEvents \cup {<<a, stage>>}
                     ELSE Recorded(a, stage)
  /\ End(a)
  /\ UNCHANGED <<rollout, breakPlans, audit>>

-----------------------------------------------------------------------------
(* Crashes, and everybody else *)

CommandDies(a) ==
  /\ attempts[a].by = "cli" /\ attempts[a].phase \notin {"unused", "over"}
  /\ CutShort(a)
  /\ UNCHANGED <<rollout, breakPlans, audit, kubeEvents>>

\* The portal's operations are lost with the process, its records are not.
PortalDies ==
  /\ breakPlans' = [b \in BreakPlan |->
       IF breakPlans[b].state = "unused" THEN breakPlans[b]
       ELSE [NoBreakPlan EXCEPT !.state = "spent"]]
  /\ attempts' = [a \in Attempt |->
       IF attempts[a].by = "portal" /\ attempts[a].phase # "over"
       THEN [Ended(attempts[a]) EXCEPT !.cut = TRUE]
       ELSE attempts[a]]
  /\ UNCHANGED <<rollout, audit, kubeEvents>>

\* What the Rollout becomes when the Rollouts controller moves the canary on,
\* pauses, ends or aborts it, when a new candidate arrives, and when the
\* Rollout is created anew.
Changed ==
  {[rollout EXCEPT !.step = @ + 1, !.pause = p] :
     p \in IF rollout.candidate /\ ~rollout.abort /\ rollout.step < MaxStep
           THEN {"none", "step", "inconclusive"} ELSE {}}
  \cup {[rollout EXCEPT !.candidate = FALSE, !.pause = "none"],
        [rollout EXCEPT !.abort = rollout.candidate],
        [rollout EXCEPT !.candidate = TRUE, !.abort = FALSE, !.step = 0],
        [rollout EXCEPT !.uid = @ + 1, !.candidate = FALSE, !.abort = FALSE,
                        !.pause = "none", !.step = 0]}

RolloutChanges ==
  /\ rollout.others < MaxRevision
  /\ \E r \in Changed : rollout' = [r EXCEPT !.revision = @ + 1, !.others = @ + 1]
  /\ UNCHANGED <<breakPlans, attempts, audit, kubeEvents>>

Show(b) ==
  \/ \E action \in Action : Inspect(b, action)
  \/ BreakPlanExpires(b)

Act(a) ==
  \/ \E b \in BreakPlan : Claim(a, b)
  \/ \E action \in Action : Command(a, action)
  \/ ReadAgain(a) \/ WriteAudit(a) \/ Announce(a) \/ Patch(a) \/ CloseAudit(a)
  \/ \E announced \in BOOLEAN : Report(a, announced)
  \/ CommandDies(a)

BreakNext ==
  \/ \E b \in BreakPlan : Show(b)
  \/ \E a \in Attempt : Act(a)
  \/ PortalDies \/ RolloutChanges

BreakSpec == BreakInit /\ [][BreakNext]_breakVars

-----------------------------------------------------------------------------
(* Properties *)

\* docs/portal.md: "bind to Rollout UID/resource version".  What a request
\* changes is, to the last field, what the operator was shown or the command
\* read, whoever else changed the Rollout in between, other requests included
\* (kube.go:120).
OnInspected ==
  [][\A a \in Attempt :
       attempts'[a].applied /\ ~attempts[a].applied => rollout = attempts[a].seen]_breakVars

\* ADR 0011: "emit Kubernetes Events and a redacted local JSON record before
\* and after mutation".  Whoever is interrupted, and whatever fails, there is
\* no mutation without both records of the attempt.
RecordedFirst ==
  \A a \in Attempt : attempts[a].applied =>
    audit[a] # "None" /\ <<a, "Attempted">> \in kubeEvents

\* What the records of a request say when it is over.  "Completed" is true.
\* "Failed" is true unless the answer to the patch was lost.  "Attempted" or an
\* empty record remain only where a crash, the disk or the Event cut the
\* request short, and then say nothing.  No request has both closing Events, and none is
\* reported completed that the audit does not call completed.
RecordsTell ==
  \A a \in Attempt :
    /\ audit[a] = "Completed" => attempts[a].applied /\ ~attempts[a].lost
    /\ audit[a] = "Failed" => (attempts[a].applied => attempts[a].lost)
    /\ attempts[a].phase = "over" /\ audit[a] \in {"Attempted", "Torn"} =>
         attempts[a].cut
    /\ <<a, "Completed">> \in kubeEvents =>
         audit[a] = "Completed" /\ <<a, "Failed">> \notin kubeEvents

-----------------------------------------------------------------------------
(* The inductive invariant of the proofs *)

\* A Rollout that was shown or read is an earlier one, or still the same one.
Remembered(seen) ==
  /\ seen.revision <= rollout.revision
  /\ seen.revision = rollout.revision => seen = rollout

Memories ==
  /\ \A b \in BreakPlan : breakPlans[b].state = "live" => Remembered(breakPlans[b].seen)
  /\ \A a \in Attempt :
       attempts[a].phase \in {"claimed", "read", "audited", "announced"} =>
         Remembered(attempts[a].seen)

\* The records of a request at each of its phases.
RecordsAt(a) ==
  LET r == attempts[a]
      untouched == ~r.applied /\ ~r.lost /\ ~r.cut
      closing == {stage \in {"Failed", "Completed"} : <<a, stage>> \in kubeEvents}
  IN /\ r.phase \in {"unused", "claimed", "read"} =>
          untouched /\ audit[a] = "None" /\ closing = {}
     /\ r.phase \in {"audited", "announced"} =>
          untouched /\ audit[a] = "Attempted" /\ closing = {}
     /\ r.phase \in {"announced", "applied", "refused", "closed", "failed"} =>
          <<a, "Attempted">> \in kubeEvents
     /\ r.phase \in {"applied", "refused"} => audit[a] = "Attempted" /\ closing = {}
     /\ r.phase \in {"applied", "closed"} => r.applied /\ ~r.lost
     /\ r.phase \in {"refused", "failed"} => (r.applied => r.lost)
     /\ r.phase = "closed" => audit[a] = "Completed" /\ closing = {}
     /\ r.phase = "failed" =>
          audit[a] \in {"Failed", "Attempted", "Torn"} /\ closing = {}
          /\ (audit[a] # "Failed" => r.cut)

BreakInv ==
  /\ BreakTypeOK /\ Memories
  /\ \A a \in Attempt : RecordsAt(a)
  /\ RecordedFirst /\ RecordsTell

=============================================================================
