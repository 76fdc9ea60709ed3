-------------------------- MODULE BreakGlassProofs --------------------------
(***************************************************************************)
(* Proofs about BreakGlass, for every value of its constants: any number   *)
(* of requests, operations of the portal, and changes of the Rollout.      *)
(***************************************************************************)
EXTENDS BreakGlass, TLAPS

-----------------------------------------------------------------------------
(* One request *)

Attempted == [by: {"cli", "portal"}, phase: AttemptPhase, action: Action,
              seen: Rollout, applied: BOOLEAN, lost: BOOLEAN, cut: BOOLEAN]

FirstOf(a) ==
  attempts[a].applied => audit[a] # "None" /\ <<a, "Attempted">> \in kubeEvents

TellOf(a) ==
  /\ audit[a] = "Completed" => attempts[a].applied /\ ~attempts[a].lost
  /\ audit[a] = "Failed" => (attempts[a].applied => attempts[a].lost)
  /\ attempts[a].phase = "over" /\ audit[a] \in {"Attempted", "Torn"} => attempts[a].cut
  /\ <<a, "Completed">> \in kubeEvents =>
       audit[a] = "Completed" /\ <<a, "Failed">> \notin kubeEvents

\* All that the invariant says of one request and its records.
OfOne(a) == RecordsAt(a) /\ FirstOf(a) /\ TellOf(a)

Mind(a) ==
  attempts[a].phase \in {"claimed", "read", "audited", "announced"} =>
    Remembered(attempts[a].seen)

\* The invariant is the sum of what it says of each request and operation.
LEMMA InvParts ==
  BreakInv <=>
    /\ BreakTypeOK
    /\ \A b \in BreakPlan : breakPlans[b].state = "live" => Remembered(breakPlans[b].seen)
    /\ \A a \in Attempt : Mind(a)
    /\ \A a \in Attempt : OfOne(a)
BY DEF BreakInv, Memories, RecordedFirst, RecordsTell, OfOne, FirstOf, TellOf, Mind

\* The initial values have their types.
LEMMA Values ==
  /\ NoRollout \in Rollout
  /\ NoAttempt \in Attempted
  /\ NoBreakPlan \in [state: PlanState, action: Action, seen: Rollout]
<1>1. NoRollout \in Rollout
  BY BreakAssumption DEF NoRollout, Rollout
<1>2. NoAttempt \in Attempted
  BY <1>1 DEF NoAttempt, Attempted, AttemptPhase, Action
<1>3. NoBreakPlan \in [state: PlanState, action: Action, seen: Rollout]
  BY <1>1 DEF NoBreakPlan, PlanState, Action
<1>. QED
  BY <1>1, <1>2, <1>3

\* A request that ends.
LEMMA EndedType ==
  ASSUME NEW r \in Attempted
  PROVE  /\ Ended(r) \in Attempted
         /\ Ended(r).phase = "over" /\ Ended(r).applied = r.applied
         /\ Ended(r).lost = r.lost /\ Ended(r).cut = r.cut
BY Values DEF Ended, NoAttempt, Attempted, AttemptPhase

\* What does not change remains remembered, and a change does not make the
\* earlier Rollout look like the new one.
LEMMA StillRemembered ==
  ASSUME NEW seen \in Rollout, rollout \in Rollout, Remembered(seen),
         \/ rollout' = rollout
         \/ rollout'.revision = rollout.revision + 1
  PROVE  seen.revision <= rollout'.revision
         /\ (seen.revision = rollout'.revision => seen = rollout')
BY DEF Remembered, Rollout

\* A step that touches one request and its records preserves the invariant
\* when it does so for that request.
LEMMA OneRequest ==
  ASSUME BreakInv, BreakTypeOK', NEW a \in Attempt, NEW r,
         attempts' = [attempts EXCEPT ![a] = r],
         \A c \in Attempt \ {a} : audit'[c] = audit[c],
         \A c \in Attempt \ {a}, stage \in Stage :
           <<c, stage>> \in kubeEvents' <=> <<c, stage>> \in kubeEvents,
         \/ rollout' = rollout
         \/ rollout'.revision = rollout.revision + 1,
         \A b \in BreakPlan : breakPlans'[b].state = "live" => breakPlans'[b] = breakPlans[b],
         Mind(a)', OfOne(a)'
  PROVE  BreakInv'
<1>1. rollout \in Rollout /\ attempts \in [Attempt -> Attempted]
      /\ breakPlans \in [BreakPlan -> [state: PlanState, action: Action, seen: Rollout]]
  BY InvParts DEF BreakTypeOK, Attempted
<1>2. ASSUME NEW b \in BreakPlan, breakPlans'[b].state = "live"
      PROVE  Remembered(breakPlans[b].seen)'
  <2>1. breakPlans'[b] = breakPlans[b]
    BY <1>2
  <2>2. breakPlans[b].seen \in Rollout
    BY <1>1
  <2>3. Remembered(breakPlans[b].seen)
    BY <1>2, <2>1, InvParts
  <2>. QED
    BY <1>1, <2>1, <2>2, <2>3, StillRemembered DEF Remembered
<1>3. ASSUME NEW c \in Attempt \ {a} PROVE Mind(c)' /\ OfOne(c)'
  <2>1. attempts'[c] = attempts[c] /\ audit'[c] = audit[c]
    BY <1>1
  <2>2. Mind(c) /\ OfOne(c)
    BY InvParts
  <2>3. Mind(c)'
    <3>1. attempts[c].seen \in Rollout
      BY <1>1 DEF Attempted
    <3>. QED
      BY <1>1, <2>1, <2>2, <3>1, StillRemembered DEF Mind, Remembered
  <2>4. \A stage \in {"Attempted", "Failed", "Completed"} :
          <<c, stage>> \in kubeEvents' <=> <<c, stage>> \in kubeEvents
    BY DEF Stage
  <2>5. {stage \in {"Failed", "Completed"} : <<c, stage>> \in kubeEvents'}
          = {stage \in {"Failed", "Completed"} : <<c, stage>> \in kubeEvents}
    BY <2>4
  <2>6. RecordsAt(c)'
    BY <2>1, <2>2, <2>4, <2>5 DEF OfOne, RecordsAt
  <2>7. FirstOf(c)' /\ TellOf(c)'
    BY <2>1, <2>2, <2>4 DEF OfOne, FirstOf, TellOf
  <2>. QED
    BY <2>3, <2>6, <2>7 DEF OfOne
<1>4. \A c \in Attempt : Mind(c)' /\ OfOne(c)'
  BY <1>3
<1>5. Memories'
  BY <1>2, <1>4 DEF Memories, Mind
<1>6. RecordedFirst' /\ RecordsTell'
  BY <1>4 DEF OfOne, FirstOf, TellOf, RecordedFirst, RecordsTell
<1>. QED
  BY <1>4, <1>5, <1>6 DEF BreakInv, OfOne

-----------------------------------------------------------------------------
(* The steps of a request *)

\* A step that changes one request, and at most one of its records and Events.
LEMMA OwnStep ==
  ASSUME BreakInv, NEW a \in Attempt, NEW r \in Attempted,
         attempts' = [attempts EXCEPT ![a] = r],
         rollout' = rollout, breakPlans' = breakPlans,
         \/ audit' = audit
         \/ \E result \in Result : audit' = [audit EXCEPT ![a] = result],
         \/ kubeEvents' = kubeEvents
         \/ \E stage \in Stage : kubeEvents' = kubeEvents \cup {<<a, stage>>},
         Mind(a)', OfOne(a)'
  PROVE  BreakInv'
<1>1. BreakTypeOK
  BY InvParts
<1>2. /\ audit' \in [Attempt -> Result]
      /\ \A c \in Attempt \ {a} : audit'[c] = audit[c]
  BY <1>1 DEF BreakTypeOK
<1>3. /\ kubeEvents' \subseteq Attempt \X Stage
      /\ \A c \in Attempt \ {a}, stage \in Stage :
           <<c, stage>> \in kubeEvents' <=> <<c, stage>> \in kubeEvents
  BY <1>1 DEF BreakTypeOK
<1>4. BreakTypeOK'
  BY <1>1, <1>2, <1>3 DEF BreakTypeOK, Attempted
<1>. QED
  BY <1>2, <1>3, <1>4, OneRequest

\* What the three ways to go on make of a request.
LEMMA Outcomes ==
  ASSUME BreakInv, NEW a \in Attempt
  PROVE  /\ OfOne(a) /\ Mind(a) /\ attempts[a] \in Attempted
         /\ Ended(attempts[a]) \in Attempted
         /\ [Ended(attempts[a]) EXCEPT !.cut = TRUE] \in Attempted
         /\ \A phase \in AttemptPhase : [attempts[a] EXCEPT !.phase = phase] \in Attempted
<1>1. OfOne(a) /\ Mind(a) /\ attempts[a] \in Attempted
  BY InvParts DEF BreakTypeOK, Attempted
<1>2. Ended(attempts[a]) \in Attempted
  BY <1>1, EndedType
<1>3. \A r \in Attempted : [r EXCEPT !.cut = TRUE] \in Attempted
  BY DEF Attempted
<1>4. \A r \in Attempted, phase \in AttemptPhase : [r EXCEPT !.phase = phase] \in Attempted
  BY DEF Attempted
<1>. QED
  BY <1>1, <1>2, <1>3, <1>4

\* Ending a request before it has done or written anything.
LEMMA EndStep ==
  ASSUME BreakInv, NEW a \in Attempt, End(a),
         attempts[a].phase \in {"claimed", "read"},
         UNCHANGED <<rollout, breakPlans, audit, kubeEvents>>
  PROVE  BreakInv'
<1>1. /\ OfOne(a) /\ attempts[a] \in Attempted
      /\ Ended(attempts[a]) \in Attempted
  BY Outcomes
<1>2. attempts'[a] = Ended(attempts[a])
  BY InvParts DEF End, BreakTypeOK
<1>3. Mind(a)' /\ OfOne(a)'
  BY <1>1, <1>2, EndedType DEF Mind, OfOne, RecordsAt, FirstOf, TellOf
<1>. QED
  BY <1>1, <1>3, OwnStep DEF End

\* Ending a request whatever it has done, with its records as they are or, if
\* they are not closed, with an empty one.
LEMMA CutStep ==
  ASSUME BreakInv, NEW a \in Attempt, CutShort(a),
         UNCHANGED <<rollout, breakPlans>>,
         \/ UNCHANGED audit
         \/ /\ attempts[a].phase \in {"read", "audited", "applied"}
            /\ audit' = [audit EXCEPT ![a] = "Torn"],
         \/ UNCHANGED kubeEvents
         \/ attempts[a].phase = "audited" /\ kubeEvents' = kubeEvents \cup {<<a, "Attempted">>}
  PROVE  BreakInv'
<1> DEFINE r == [Ended(attempts[a]) EXCEPT !.cut = TRUE]
<1>1. /\ OfOne(a) /\ attempts[a] \in Attempted /\ r \in Attempted
  BY Outcomes
<1>2. attempts'[a] = r
  BY InvParts DEF CutShort, BreakTypeOK
<1>3. r.phase = "over" /\ r.cut /\ r.applied = attempts[a].applied /\ r.lost = attempts[a].lost
  BY <1>1, EndedType DEF Attempted
<1>4. \/ audit'[a] = audit[a]
      \/ attempts[a].phase \in {"read", "audited", "applied"} /\ audit'[a] = "Torn"
  BY InvParts DEF BreakTypeOK
<1>5. Mind(a)' /\ RecordsAt(a)'
  BY <1>2, <1>3 DEF Mind, RecordsAt
<1>6. FirstOf(a)' /\ TellOf(a)'
  <2>1. <<a, "Attempted">> \in kubeEvents => <<a, "Attempted">> \in kubeEvents'
    OBVIOUS
  <2>2. \A stage \in {"Failed", "Completed"} :
          <<a, stage>> \in kubeEvents' <=> <<a, stage>> \in kubeEvents
    OBVIOUS
  <2>. QED
    BY <1>1, <1>2, <1>3, <1>4, <2>1, <2>2 DEF OfOne, RecordsAt, FirstOf, TellOf
<1>. QED
  BY <1>1, <1>5, <1>6, OwnStep DEF CutShort, OfOne, Stage, Result

\* Confirming an operation in the portal (portal_api.go:723-731).
LEMMA ClaimStep ==
  ASSUME BreakInv, NEW a \in Attempt, NEW b \in BreakPlan, Claim(a, b)
  PROVE  BreakInv'
<1> DEFINE r == [NoAttempt EXCEPT !.by = "portal", !.phase = "claimed",
                   !.action = breakPlans[b].action, !.seen = breakPlans[b].seen]
<1>1. BreakTypeOK
  BY InvParts
<1>2. r \in Attempted
  BY <1>1, Values DEF BreakTypeOK, Attempted, AttemptPhase
<1>3. attempts' = [attempts EXCEPT ![a] = r] /\ attempts'[a] = r
  BY <1>1 DEF Claim, BreakTypeOK
<1>4. [NoBreakPlan EXCEPT !.state = "spent"]
        \in [state: PlanState, action: Action, seen: Rollout]
  BY Values DEF PlanState
<1>5. BreakTypeOK'
  BY <1>1, <1>2, <1>3, <1>4 DEF Claim, BreakTypeOK, Attempted
<1>6. \A c \in BreakPlan : breakPlans'[c].state = "live" => breakPlans'[c] = breakPlans[c]
  BY <1>1, <1>4 DEF Claim, BreakTypeOK, NoBreakPlan
<1>7. Mind(a)'
  BY <1>1, <1>3, InvParts DEF Claim, Mind, Remembered
<1>8. OfOne(a)'
  BY <1>1, <1>3, InvParts DEF Claim, OfOne, RecordsAt, FirstOf, TellOf, NoAttempt
<1>. QED
  BY <1>3, <1>5, <1>6, <1>7, <1>8, OneRequest DEF Claim

\* Reading the Rollout again (portal_api.go:739-752).
LEMMA ReadAgainStep ==
  ASSUME BreakInv, NEW a \in Attempt, ReadAgain(a)
  PROVE  BreakInv'
<1>1. CASE End(a)
  BY <1>1, EndStep DEF ReadAgain
<1>2. CASE Goto(a, "read")
  <2> DEFINE r == [attempts[a] EXCEPT !.phase = "read"]
  <2>1. OfOne(a) /\ Mind(a) /\ attempts[a] \in Attempted /\ r \in Attempted
    BY Outcomes DEF AttemptPhase
  <2>2. attempts' = [attempts EXCEPT ![a] = r] /\ attempts'[a] = r
    BY <1>2, InvParts DEF Goto, BreakTypeOK
  <2>3. Mind(a)' /\ OfOne(a)'
    BY <2>1, <2>2
    DEF ReadAgain, Mind, OfOne, RecordsAt, FirstOf, TellOf, Attempted, Remembered
  <2>. QED
    BY <2>1, <2>2, <2>3, OwnStep DEF ReadAgain
<1>. QED
  BY <1>1, <1>2 DEF ReadAgain

\* Starting the command (commands_breakglass.go:48-88).
LEMMA CommandStep ==
  ASSUME BreakInv, NEW a \in Attempt, NEW action \in Action, Command(a, action)
  PROVE  BreakInv'
<1> DEFINE r == [NoAttempt EXCEPT !.phase = "read", !.action = action, !.seen = rollout]
<1>1. OfOne(a) /\ rollout \in Rollout
  BY InvParts DEF BreakTypeOK
<1>2. r \in Attempted
  BY <1>1, Values DEF Attempted, AttemptPhase
<1>3. attempts' = [attempts EXCEPT ![a] = r] /\ attempts'[a] = r
  BY InvParts DEF Command, BreakTypeOK
<1>4. Mind(a)'
  BY <1>1, <1>3 DEF Command, Mind, Remembered, NoAttempt, Rollout
<1>5. OfOne(a)'
  BY <1>1, <1>3 DEF Command, OfOne, RecordsAt, FirstOf, TellOf, NoAttempt
<1>. QED
  BY <1>2, <1>3, <1>4, <1>5, OwnStep DEF Command

\* Writing the audit record of the attempt.
LEMMA WriteAuditStep ==
  ASSUME BreakInv, NEW a \in Attempt, WriteAudit(a)
  PROVE  BreakInv'
<1>1. CASE WriteFails(a) /\ CutShort(a)
  BY <1>1, CutStep DEF WriteAudit, WriteFails
<1>2. CASE audit' = [audit EXCEPT ![a] = "Attempted"] /\ Goto(a, "audited")
  <2> DEFINE r == [attempts[a] EXCEPT !.phase = "audited"]
  <2>1. OfOne(a) /\ Mind(a) /\ attempts[a] \in Attempted /\ r \in Attempted
    BY Outcomes DEF AttemptPhase
  <2>2. attempts' = [attempts EXCEPT ![a] = r] /\ attempts'[a] = r
        /\ audit'[a] = "Attempted"
    BY <1>2, InvParts DEF Goto, BreakTypeOK
  <2>3. Mind(a)' /\ OfOne(a)'
    BY <2>1, <2>2
    DEF WriteAudit, Mind, OfOne, RecordsAt, FirstOf, TellOf, Attempted, Remembered
  <2>. QED
    BY <1>2, <2>1, <2>2, <2>3, OwnStep DEF WriteAudit, Stage, Result
<1>. QED
  BY <1>1, <1>2 DEF WriteAudit

\* Creating the Event of the attempt, with or without an answer.
LEMMA AnnounceStep ==
  ASSUME BreakInv, NEW a \in Attempt, Announce(a)
  PROVE  BreakInv'
<1> DEFINE go == [attempts[a] EXCEPT !.phase = "announced"]
           end == Ended(attempts[a])
<1>1. /\ OfOne(a) /\ Mind(a) /\ attempts[a] \in Attempted
      /\ go \in Attempted /\ end \in Attempted
  BY Outcomes DEF AttemptPhase
<1>2. CASE Goto(a, "announced") /\ kubeEvents' = kubeEvents \cup {<<a, "Attempted">>}
           /\ UNCHANGED audit
  <2>1. attempts' = [attempts EXCEPT ![a] = go] /\ attempts'[a] = go
    BY <1>2, InvParts DEF Goto, BreakTypeOK
  <2>2. \A stage \in {"Failed", "Completed"} :
          <<a, stage>> \in kubeEvents' <=> <<a, stage>> \in kubeEvents
    BY <1>2
  <2>3. Mind(a)' /\ OfOne(a)'
    BY <1>1, <1>2, <2>1, <2>2
    DEF Announce, Mind, OfOne, RecordsAt, FirstOf, TellOf, Attempted, Remembered
  <2>. QED
    BY <1>1, <1>2, <2>1, <2>3, OwnStep DEF Announce, Stage
<1>3. CASE Recorded(a, "Attempted") /\ CutShort(a) /\ WriteFails(a)
  BY <1>3, CutStep DEF Announce, Recorded, WriteFails
<1>4. CASE Recorded(a, "Attempted") /\ End(a) /\ audit' = [audit EXCEPT ![a] = "Failed"]
  <2>1. attempts' = [attempts EXCEPT ![a] = end] /\ attempts'[a] = end
        /\ audit'[a] = "Failed"
    BY <1>4, InvParts DEF End, BreakTypeOK
  <2>2. \A stage \in {"Failed", "Completed"} :
          <<a, stage>> \in kubeEvents' <=> <<a, stage>> \in kubeEvents
    BY <1>4 DEF Recorded
  <2>3. Mind(a)' /\ OfOne(a)'
    BY <1>1, <1>4, <2>1, <2>2, EndedType
    DEF Announce, Mind, OfOne, RecordsAt, FirstOf, TellOf
  <2>. QED
    BY <1>1, <1>4, <2>1, <2>3, OwnStep DEF Announce, Recorded, Stage, Result
<1>. QED
  BY <1>2, <1>3, <1>4 DEF Announce, AnnounceFails, WriteFails

\* What the patch makes of the Rollout.
LEMMA PatchedType ==
  ASSUME NEW action \in Action, NEW seen \in Rollout, NEW r \in Rollout
  PROVE  LET p == [Patched(action, seen, r) EXCEPT !.revision = @ + 1]
         IN p \in Rollout /\ p.revision = r.revision + 1
<1>1. seen.step + 1 \in Nat
  BY DEF Rollout
<1>2. Patched(action, seen, r) \in Rollout
  <2>1. CASE action = "abort"
    BY <2>1 DEF Patched, Rollout
  <2>2. CASE action # "abort"
    <3>1. \A step \in Nat : [r EXCEPT !.pause = "none", !.step = step] \in Rollout
      BY DEF Rollout
    <3>2. (IF seen.pause = "step" THEN r.step ELSE seen.step + 1) \in Nat
      BY <1>1 DEF Rollout
    <3>. QED
      BY <2>2, <3>1, <3>2 DEF Patched, Rollout
  <2>. QED
    BY <2>1, <2>2
<1>3. Patched(action, seen, r).revision = r.revision
  BY DEF Patched, Rollout
<1>4. \A p \in Rollout : /\ [p EXCEPT !.revision = p.revision + 1] \in Rollout
                         /\ [p EXCEPT !.revision = p.revision + 1].revision = p.revision + 1
  BY DEF Rollout
<1>. QED
  BY <1>2, <1>3, <1>4

\* The patch, with or without an answer.
LEMMA PatchStep ==
  ASSUME BreakInv, NEW a \in Attempt, Patch(a)
  PROVE  BreakInv'
<1>1. /\ BreakTypeOK /\ OfOne(a) /\ Mind(a) /\ attempts[a] \in Attempted
      /\ rollout \in Rollout
  BY Outcomes, InvParts DEF BreakTypeOK
<1>2. CASE Goto(a, "refused") /\ UNCHANGED rollout
  <2> DEFINE r == [attempts[a] EXCEPT !.phase = "refused"]
  <2>1. attempts' = [attempts EXCEPT ![a] = r] /\ attempts'[a] = r /\ r \in Attempted
    BY <1>2, InvParts, Outcomes DEF Goto, BreakTypeOK, AttemptPhase
  <2>2. Mind(a)' /\ OfOne(a)'
    BY <1>1, <2>1 DEF Patch, Mind, OfOne, RecordsAt, FirstOf, TellOf, Attempted
  <2>. QED
    BY <1>1, <1>2, <2>1, <2>2, OwnStep DEF Patch
<1>3. ASSUME NEW phase \in {"applied", "refused"}, NEW lost \in BOOLEAN,
             phase = "refused" <=> lost,
             attempts' = [attempts EXCEPT ![a] = [attempts[a] EXCEPT
                            !.phase = phase, !.applied = TRUE, !.lost = lost]],
             rollout' = [Patched(attempts[a].action, attempts[a].seen, rollout)
                           EXCEPT !.revision = @ + 1]
      PROVE  BreakInv'
  <2> DEFINE r == [attempts[a] EXCEPT !.phase = phase, !.applied = TRUE, !.lost = lost]
  <2>1. r \in Attempted
    BY <1>1 DEF Attempted, AttemptPhase
  <2>2. attempts' = [attempts EXCEPT ![a] = r] /\ attempts'[a] = r
    BY <1>1, <1>3 DEF BreakTypeOK
  <2>3. rollout' \in Rollout /\ rollout'.revision = rollout.revision + 1
    BY <1>1, <1>3, PatchedType DEF Attempted
  <2>4. BreakTypeOK'
    BY <1>1, <2>1, <2>2, <2>3 DEF Patch, BreakTypeOK, Attempted
  <2>5. Mind(a)' /\ OfOne(a)'
    BY <1>1, <1>3, <2>2
    DEF Patch, Mind, OfOne, RecordsAt, FirstOf, TellOf, Attempted
  <2>. QED
    BY <2>2, <2>3, <2>4, <2>5, OneRequest DEF Patch
<1>4. CASE /\ rollout' = [Patched(attempts[a].action, attempts[a].seen, rollout)
                            EXCEPT !.revision = @ + 1]
           /\ attempts' = [attempts EXCEPT ![a].phase = "applied", ![a].applied = TRUE]
  <2>1. attempts' = [attempts EXCEPT ![a] = [attempts[a] EXCEPT
                       !.phase = "applied", !.applied = TRUE, !.lost = FALSE]]
    BY <1>1, <1>4 DEF Patch, BreakTypeOK, OfOne, RecordsAt, Attempted
  <2>. QED
    BY <1>3, <1>4, <2>1
<1>5. CASE /\ rollout' = [Patched(attempts[a].action, attempts[a].seen, rollout)
                            EXCEPT !.revision = @ + 1]
           /\ attempts' = [attempts EXCEPT ![a].phase = "refused", ![a].applied = TRUE,
                                           ![a].lost = TRUE]
  <2>1. attempts' = [attempts EXCEPT ![a] = [attempts[a] EXCEPT
                       !.phase = "refused", !.applied = TRUE, !.lost = TRUE]]
    BY <1>1, <1>5 DEF BreakTypeOK, Attempted
  <2>. QED
    BY <1>3, <1>5, <2>1
<1>. QED
  BY <1>2, <1>4, <1>5 DEF Patch

\* Closing the audit record.
LEMMA CloseAuditStep ==
  ASSUME BreakInv, NEW a \in Attempt, CloseAudit(a)
  PROVE  BreakInv'
<1>1. /\ BreakTypeOK /\ OfOne(a) /\ Mind(a) /\ attempts[a] \in Attempted
  BY Outcomes, InvParts
<1>2. CASE CutShort(a) /\ WriteFails(a) /\ attempts[a].phase = "applied"
  BY <1>2, CutStep DEF CloseAudit, WriteFails
<1>3. ASSUME NEW phase \in {"closed", "failed"}, NEW result \in {"Completed", "Failed"},
             phase = "closed" <=> result = "Completed",
             attempts[a].phase = IF phase = "closed" THEN "applied" ELSE "refused",
             audit' = [audit EXCEPT ![a] = result], Goto(a, phase)
      PROVE  BreakInv'
  <2> DEFINE r == [attempts[a] EXCEPT !.phase = phase]
  <2>1. attempts' = [attempts EXCEPT ![a] = r] /\ attempts'[a] = r /\ r \in Attempted
    BY <1>3, InvParts, Outcomes DEF Goto, BreakTypeOK, AttemptPhase
  <2>2. audit'[a] = result
    BY <1>1, <1>3 DEF BreakTypeOK
  <2>3. Mind(a)' /\ OfOne(a)'
    BY <1>1, <1>3, <2>1, <2>2
    DEF CloseAudit, Mind, OfOne, RecordsAt, FirstOf, TellOf, Attempted
  <2>. QED
    BY <1>1, <1>3, <2>1, <2>3, OwnStep DEF CloseAudit, Stage, Result
<1>4. CASE /\ attempts[a].phase = "refused" /\ WriteFails(a)
           /\ attempts' = [attempts EXCEPT ![a].phase = "failed", ![a].cut = TRUE]
  <2> DEFINE r == [attempts[a] EXCEPT !.phase = "failed", !.cut = TRUE]
  <2>1. attempts' = [attempts EXCEPT ![a] = r] /\ attempts'[a] = r /\ r \in Attempted
    BY <1>1, <1>4 DEF BreakTypeOK, Attempted, AttemptPhase
  <2>2. audit'[a] \in {"Attempted", "Torn"}
    BY <1>1, <1>4 DEF WriteFails, BreakTypeOK, OfOne, RecordsAt
  <2>3. Mind(a)' /\ OfOne(a)'
    BY <1>1, <1>4, <2>1, <2>2
    DEF CloseAudit, Mind, OfOne, RecordsAt, FirstOf, TellOf, Attempted
  <2>. QED
    BY <1>4, <2>1, <2>3, OwnStep DEF CloseAudit, WriteFails, Result
<1>. QED
  BY <1>2, <1>3, <1>4 DEF CloseAudit

\* Creating the closing Event.
LEMMA ReportStep ==
  ASSUME BreakInv, NEW a \in Attempt, NEW announced \in BOOLEAN, Report(a, announced)
  PROVE  BreakInv'
<1> DEFINE stage == IF attempts[a].phase = "closed" THEN "Completed" ELSE "Failed"
           end == Ended(attempts[a])
<1>1. /\ OfOne(a) /\ attempts[a] \in Attempted /\ end \in Attempted
  BY Outcomes
<1>2. attempts' = [attempts EXCEPT ![a] = end] /\ attempts'[a] = end
  BY InvParts DEF Report, End, BreakTypeOK
<1>3. kubeEvents' = kubeEvents \/ kubeEvents' = kubeEvents \cup {<<a, stage>>}
  BY DEF Report, Recorded
<1>4. \A s \in {"Attempted", "Failed", "Completed"} :
        /\ <<a, s>> \in kubeEvents => <<a, s>> \in kubeEvents'
        /\ <<a, s>> \in kubeEvents' => <<a, s>> \in kubeEvents \/ s = stage
  BY <1>3
<1>5. Mind(a)' /\ RecordsAt(a)'
  BY <1>1, <1>2, EndedType DEF Mind, RecordsAt
<1>6. FirstOf(a)' /\ TellOf(a)'
  BY <1>1, <1>2, <1>4, EndedType DEF Report, OfOne, RecordsAt, FirstOf, TellOf
<1>. QED
  BY <1>1, <1>2, <1>3, <1>5, <1>6, OwnStep DEF Report, OfOne, Stage

\* The command's process ends.
LEMMA CommandDiesStep ==
  ASSUME BreakInv, NEW a \in Attempt, CommandDies(a)
  PROVE  BreakInv'
BY CutStep DEF CommandDies

\* Every step of a request preserves the invariant.
LEMMA ActStep ==
  ASSUME BreakInv, NEW a \in Attempt, Act(a)
  PROVE  BreakInv'
BY ClaimStep, CommandStep, ReadAgainStep, WriteAuditStep, AnnounceStep, PatchStep,
   CloseAuditStep, ReportStep, CommandDiesStep DEF Act

-----------------------------------------------------------------------------
(* The steps that are no request's *)

\* A step that leaves all requests and records alone, and neither shows an
\* operation nor changes one that it leaves live.
LEMMA OthersStep ==
  ASSUME BreakInv, BreakTypeOK', UNCHANGED <<attempts, audit, kubeEvents>>,
         \/ rollout' = rollout
         \/ rollout'.revision = rollout.revision + 1,
         \A b \in BreakPlan : breakPlans'[b].state = "live" =>
           breakPlans'[b] = breakPlans[b] \/ (breakPlans'[b].seen = rollout /\ rollout' = rollout)
  PROVE  BreakInv'
<1>1. /\ rollout \in Rollout /\ attempts \in [Attempt -> Attempted]
      /\ breakPlans \in [BreakPlan -> [state: PlanState, action: Action, seen: Rollout]]
  BY InvParts DEF BreakTypeOK, Attempted
<1>2. ASSUME NEW b \in BreakPlan, breakPlans'[b].state = "live"
      PROVE  Remembered(breakPlans[b].seen)'
  <2>1. CASE breakPlans'[b] = breakPlans[b]
    <3>1. Remembered(breakPlans[b].seen) /\ breakPlans[b].seen \in Rollout
      BY <1>1, <1>2, <2>1, InvParts
    <3>. QED
      BY <1>1, <2>1, <3>1, StillRemembered DEF Remembered
  <2>2. CASE breakPlans'[b].seen = rollout /\ rollout' = rollout
    BY <1>1, <2>2 DEF Remembered, Rollout
  <2>. QED
    BY <1>2, <2>1, <2>2
<1>3. ASSUME NEW a \in Attempt PROVE Mind(a)'
  <2>1. Mind(a) /\ attempts[a].seen \in Rollout
    BY <1>1, InvParts DEF Attempted
  <2>. QED
    BY <1>1, <2>1, StillRemembered DEF Mind, Remembered
<1>4. Memories'
  BY <1>2, <1>3 DEF Memories, Mind
<1>5. (\A a \in Attempt : RecordsAt(a))' /\ RecordedFirst' /\ RecordsTell'
  BY DEF BreakInv, RecordsAt, RecordedFirst, RecordsTell
<1>. QED
  BY <1>4, <1>5 DEF BreakInv

\* Showing an operation, and its expiry.
LEMMA ShowStep ==
  ASSUME BreakInv, NEW b \in BreakPlan, Show(b)
  PROVE  BreakInv'
<1>1. BreakTypeOK
  BY InvParts
<1>2. ASSUME NEW action \in Action, Inspect(b, action) PROVE BreakInv'
  <2>1. BreakTypeOK'
    BY <1>1, <1>2 DEF Inspect, BreakTypeOK, PlanState
  <2>. QED
    BY <1>1, <1>2, <2>1, OthersStep DEF Inspect, BreakTypeOK
<1>3. CASE BreakPlanExpires(b)
  <2>1. [NoBreakPlan EXCEPT !.state = "spent"]
          \in [state: PlanState, action: Action, seen: Rollout]
    BY Values DEF PlanState
  <2>2. BreakTypeOK'
    BY <1>1, <1>3, <2>1 DEF BreakPlanExpires, BreakTypeOK
  <2>3. [NoBreakPlan EXCEPT !.state = "spent"].state = "spent"
    BY DEF NoBreakPlan
  <2>. QED
    BY <1>1, <1>3, <2>2, <2>3, OthersStep DEF BreakPlanExpires, BreakTypeOK
<1>. QED
  BY <1>2, <1>3 DEF Show

\* Rollouts with some fields changed.
LEMMA FieldTypes ==
  ASSUME NEW r \in Rollout, NEW p \in {"none", "step", "inconclusive"},
         NEW n \in Nat, NEW x \in BOOLEAN
  PROVE  /\ [r EXCEPT !.step = n, !.pause = p] \in Rollout
         /\ [r EXCEPT !.candidate = x, !.pause = p] \in Rollout
         /\ [r EXCEPT !.abort = x] \in Rollout
         /\ [r EXCEPT !.candidate = TRUE, !.abort = FALSE, !.step = n] \in Rollout
         /\ [r EXCEPT !.uid = n, !.candidate = FALSE, !.abort = FALSE,
                      !.pause = "none", !.step = 0] \in Rollout
BY DEF Rollout

\* What others change of the Rollout.
LEMMA RolloutStep ==
  ASSUME BreakInv, RolloutChanges
  PROVE  BreakInv'
<1>1. BreakTypeOK /\ rollout \in Rollout
  BY InvParts DEF BreakTypeOK
<1>2. /\ rollout.step + 1 \in Nat /\ rollout.uid + 1 \in Nat
      /\ rollout.candidate \in BOOLEAN
  BY <1>1 DEF Rollout
<1>3. ASSUME NEW p \in {"none", "step", "inconclusive"}
      PROVE  [rollout EXCEPT !.step = @ + 1, !.pause = p] \in Rollout
  BY <1>1, <1>2, FieldTypes
<1>4. [rollout EXCEPT !.candidate = FALSE, !.pause = "none"] \in Rollout
  BY <1>1, FieldTypes
<1>5. [rollout EXCEPT !.abort = rollout.candidate] \in Rollout
  BY <1>1, <1>2, FieldTypes
<1>6. [rollout EXCEPT !.candidate = TRUE, !.abort = FALSE, !.step = 0] \in Rollout
  BY <1>1, FieldTypes
<1>7. [rollout EXCEPT !.uid = @ + 1, !.candidate = FALSE, !.abort = FALSE,
                      !.pause = "none", !.step = 0] \in Rollout
  BY <1>1, <1>2, FieldTypes
<1>8. PICK r \in Changed :
        rollout' = [r EXCEPT !.revision = @ + 1, !.others = @ + 1]
  BY DEF RolloutChanges
<1>9. r \in Rollout /\ r.revision = rollout.revision /\ r.others = rollout.others
  <2>1. r \in Rollout
    BY <1>3, <1>4, <1>5, <1>6, <1>7, <1>8 DEF Changed
  <2>2. r.revision = rollout.revision /\ r.others = rollout.others
    BY <1>1, <1>8 DEF Changed, Rollout
  <2>. QED
    BY <2>1, <2>2
<1>10. rollout' \in Rollout /\ rollout'.revision = rollout.revision + 1
  <2>1. r.revision + 1 \in Nat /\ r.others + 1 \in 0..MaxRevision
    BY <1>1, <1>9, BreakAssumption DEF RolloutChanges, Rollout
  <2>2. \A n \in Nat, m \in 0..MaxRevision :
          [r EXCEPT !.revision = n, !.others = m] \in Rollout
    BY <1>9 DEF Rollout
  <2>3. rollout' \in Rollout
    BY <1>8, <2>1, <2>2
  <2>. QED
    BY <1>8, <1>9, <2>3 DEF Rollout
<1>11. BreakTypeOK'
  BY <1>1, <1>10 DEF RolloutChanges, BreakTypeOK
<1>. QED
  BY <1>10, <1>11, OthersStep DEF RolloutChanges

\* The portal's process ends.
LEMMA PortalDiesStep ==
  ASSUME BreakInv, PortalDies
  PROVE  BreakInv'
<1>1. BreakTypeOK /\ attempts \in [Attempt -> Attempted]
  BY InvParts DEF BreakTypeOK, Attempted
<1>2. \A b \in BreakPlan : breakPlans'[b].state # "live"
  BY DEF PortalDies, NoBreakPlan
<1>3. ASSUME NEW a \in Attempt
      PROVE  /\ attempts'[a] \in Attempted
             /\ Mind(a)' /\ OfOne(a)'
  <2>1. OfOne(a) /\ Mind(a) /\ attempts[a] \in Attempted
        /\ [Ended(attempts[a]) EXCEPT !.cut = TRUE] \in Attempted
    BY Outcomes
  <2>2. CASE attempts'[a] = attempts[a]
    BY <2>1, <2>2
    DEF PortalDies, Mind, Remembered, OfOne, RecordsAt, FirstOf, TellOf
  <2>3. CASE attempts'[a] = [Ended(attempts[a]) EXCEPT !.cut = TRUE]
    <3> DEFINE r == [Ended(attempts[a]) EXCEPT !.cut = TRUE]
    <3>1. r.phase = "over" /\ r.cut /\ r.applied = attempts[a].applied /\ r.lost = attempts[a].lost
      BY <2>1, EndedType DEF Attempted
    <3>. QED
      BY <2>1, <2>3, <3>1 DEF PortalDies, Mind, OfOne, RecordsAt, FirstOf, TellOf
  <2>. QED
    BY <2>1, <2>2, <2>3 DEF PortalDies
<1>4. BreakTypeOK'
  <2>1. attempts' \in [Attempt -> Attempted]
    BY <1>3 DEF PortalDies
  <2>2. [NoBreakPlan EXCEPT !.state = "spent"]
          \in [state: PlanState, action: Action, seen: Rollout]
    BY Values DEF PlanState
  <2>3. breakPlans' \in [BreakPlan -> [state: PlanState, action: Action, seen: Rollout]]
    BY <1>1, <2>2 DEF PortalDies, BreakTypeOK
  <2>. QED
    BY <1>1, <2>1, <2>3 DEF PortalDies, BreakTypeOK, Attempted
<1>5. Memories'
  BY <1>2, <1>3 DEF Memories, Mind
<1>6. RecordedFirst' /\ RecordsTell'
  BY <1>3 DEF OfOne, FirstOf, TellOf, RecordedFirst, RecordsTell
<1>. QED
  BY <1>3, <1>4, <1>5, <1>6 DEF BreakInv, OfOne

-----------------------------------------------------------------------------
(* The inductive invariant *)

\* The invariant holds initially.
LEMMA InvInit == BreakInit => BreakInv
<1> SUFFICES ASSUME BreakInit PROVE BreakInv
  OBVIOUS
<1>1. rollout \in Rollout
  BY BreakAssumption DEF BreakInit, Rollout
<1>2. BreakTypeOK
  BY <1>1, Values DEF BreakInit, BreakTypeOK, Attempted, Result
<1>3. Memories
  BY DEF BreakInit, Memories, NoBreakPlan, NoAttempt
<1>4. \A a \in Attempt : RecordsAt(a)
  BY DEF BreakInit, RecordsAt, NoAttempt
<1>5. RecordedFirst /\ RecordsTell
  BY DEF BreakInit, RecordedFirst, RecordsTell, NoAttempt
<1>. QED
  BY <1>2, <1>3, <1>4, <1>5 DEF BreakInv

\* Every step preserves the invariant.
LEMMA InvNext == BreakInv /\ [BreakNext]_breakVars => BreakInv'
<1> SUFFICES ASSUME BreakInv, [BreakNext]_breakVars PROVE BreakInv'
  OBVIOUS
<1>1. ASSUME NEW b \in BreakPlan, Show(b) PROVE BreakInv'
  BY <1>1, ShowStep
<1>2. ASSUME NEW a \in Attempt, Act(a) PROVE BreakInv'
  BY <1>2, ActStep
<1>3. CASE PortalDies
  BY <1>3, PortalDiesStep
<1>4. CASE RolloutChanges
  BY <1>4, RolloutStep
<1>5. CASE UNCHANGED breakVars
  <2>1. BreakTypeOK'
    BY <1>5, InvParts DEF breakVars, BreakTypeOK
  <2>. QED
    BY <1>5, <2>1, OthersStep DEF breakVars
<1>. QED
  BY <1>1, <1>2, <1>3, <1>4, <1>5 DEF BreakNext

\* In every state of the break-glass protocol, whatever fails, is lost or
\* dies, the records of each request fit its phase.
THEOREM BreakInvariant == BreakSpec => []BreakInv
BY InvInit, InvNext, PTL DEF BreakSpec

\* The variables have their types.
THEOREM BreakTypes == BreakSpec => []BreakTypeOK
BY BreakInvariant, PTL DEF BreakInv

\* No mutation of a Rollout without both records of the attempt (commands_
\* breakglass.go:96-106, portal_api.go:755-765), for any number of requests.
THEOREM RecordsComeFirst == BreakSpec => []RecordedFirst
BY BreakInvariant, PTL DEF BreakInv

\* What the records say when a request is over is true, with the exceptions
\* that RecordsTell names.
THEOREM RecordsAreTrue == BreakSpec => []RecordsTell
BY BreakInvariant, PTL DEF BreakInv

-----------------------------------------------------------------------------
(* What a request changes is what it rests on *)

\* Only the patch of a request marks it as applied.
LEMMA AppliedByPatch ==
  ASSUME BreakInv, BreakNext, NEW a \in Attempt,
         attempts'[a].applied, ~attempts[a].applied
  PROVE  Patch(a)
<1>1. attempts \in [Attempt -> Attempted]
  BY InvParts DEF BreakTypeOK, Attempted
<1>2. ASSUME NEW b \in BreakPlan, Show(b) PROVE FALSE
  BY <1>2 DEF Show, Inspect, BreakPlanExpires
<1>3. ASSUME NEW c \in Attempt, Act(c) PROVE Patch(a)
  <2>1. attempts[c] \in Attempted /\ Ended(attempts[c]).applied = attempts[c].applied
    BY <1>1, EndedType
  <2>2. ASSUME c # a PROVE FALSE
    BY <1>1, <1>3, <2>2
    DEF Act, Claim, Command, ReadAgain, WriteAudit, Announce, AnnounceFails, Patch,
        CloseAudit, Report, CommandDies, Goto, End, CutShort
  <2>3. ASSUME NEW b \in BreakPlan, Claim(a, b) PROVE FALSE
    BY <1>1, <2>3 DEF Claim, NoAttempt
  <2>4. ASSUME NEW action \in Action, Command(a, action) PROVE FALSE
    BY <1>1, <2>4 DEF Command, NoAttempt
  <2>5. ASSUME End(a) PROVE FALSE
    BY <1>1, <2>1, <2>2, <2>5 DEF End
  <2>6. ASSUME CutShort(a) PROVE FALSE
    <3>1. [Ended(attempts[a]) EXCEPT !.cut = TRUE].applied = Ended(attempts[a]).applied
      BY DEF Ended, NoAttempt
    <3>. QED
      BY <1>1, <2>1, <2>2, <2>6, <3>1 DEF CutShort
  <2>7. ASSUME NEW phase, Goto(a, phase) PROVE FALSE
    BY <1>1, <2>7 DEF Goto, Attempted
  <2>8. ASSUME attempts' = [attempts EXCEPT ![a].phase = "failed", ![a].cut = TRUE] PROVE FALSE
    BY <1>1, <2>8 DEF Attempted
  <2>. QED
    BY <1>3, <2>2, <2>3, <2>4, <2>5, <2>6, <2>7, <2>8
    DEF Act, ReadAgain, WriteAudit, Announce, AnnounceFails, CloseAudit, Report, CommandDies
<1>4. ASSUME PortalDies PROVE FALSE
  <2>1. attempts[a] \in Attempted /\ Ended(attempts[a]).applied = attempts[a].applied
    BY <1>1, EndedType
  <2>2. [Ended(attempts[a]) EXCEPT !.cut = TRUE].applied = Ended(attempts[a]).applied
    BY DEF Ended, NoAttempt
  <2>. QED
    BY <1>4, <2>1, <2>2 DEF PortalDies
<1>5. ASSUME RolloutChanges PROVE FALSE
  BY <1>5 DEF RolloutChanges
<1>. QED
  BY <1>2, <1>3, <1>4, <1>5 DEF BreakNext

\* What a request changes is, to the last field, what the operator was shown
\* or the command read, for any number of requests and changes by others.
THEOREM ChangesWhatWasInspected == BreakSpec => OnInspected
<1> DEFINE Applying == \A a \in Attempt :
             attempts'[a].applied /\ ~attempts[a].applied => rollout = attempts[a].seen
<1>1. BreakInv /\ [BreakNext]_breakVars => [Applying]_breakVars
  <2> SUFFICES ASSUME BreakInv, BreakNext, NEW a \in Attempt,
                      attempts'[a].applied, ~attempts[a].applied
               PROVE  rollout = attempts[a].seen
    OBVIOUS
  <2>1. Patch(a)
    BY AppliedByPatch
  <2>2. attempts[a].phase = "announced"
    BY <2>1 DEF Patch
  <2>3. Remembered(attempts[a].seen)
    BY <2>2 DEF BreakInv, Memories
  <2>4. rollout.revision = attempts[a].seen.revision
    <3>1. ~(Goto(a, "refused"))
      BY InvParts DEF Goto, BreakTypeOK
    <3>. QED
      BY <2>1, <3>1 DEF Patch, TestPasses
  <2>. QED
    BY <2>3, <2>4 DEF Remembered
<1>. QED
  BY <1>1, BreakInvariant, PTL DEF BreakSpec, OnInspected
=============================================================================
