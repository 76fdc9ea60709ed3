--------------------------- MODULE PlatformLifecycle ---------------------------
(***************************************************************************)
(* `platformctl platform up`, `down` and `verify` (platform_lifecycle.go):  *)
(* scripts run one after another, each in a process tree that is cut off   *)
(* at its deadline or at Ctrl-C (process_tree*.go), while the processes    *)
(* they start live their own lives.                                        *)
(*                                                                         *)
(* Abstractions: of a script's tree, the root and one descendant are kept, *)
(* which the operating system counts to the tree (its process group, its   *)
(* job object) or not.  A descendant that left the group, or was started   *)
(* before Windows assigned the root to the job, is beyond what platformctl *)
(* can reach.  What the scripts do to the cluster is theirs.               *)
(***************************************************************************)
EXTENDS Naturals, Sequences

CONSTANTS
  Revision,       \* commits of the checkout
  NoRevision,     \* no commit: down is not given one
  MaxInvocations  \* bound: commands run, one after the other

ASSUME PlatformAssumption == NoRevision \notin Revision /\ MaxInvocations \in Nat

VARIABLES
  os,          \* what platformctl runs on
  invocation,  \* the command that runs, or the last one
  tree,        \* the processes of its stage
  due,         \* has the stage's deadline passed?
  interrupted, \* was Ctrl-C pressed?
  outcomes,    \* how the stages of the command ended, for the properties
  strays,      \* processes that outlived their stage
  invocations  \* commands run

platformVars ==
  <<os, invocation, tree, due, interrupted, outcomes, strays, invocations>>

-----------------------------------------------------------------------------
(* Data *)

Subcommand == {"up", "down", "verify"}
Profile == {"full", "smaller"} \* "smaller": minimal and standard

If(condition, stages) == IF condition THEN stages ELSE << >>

UpStages(profile, hosted) ==
  <<"tools", "check-versions", "build-images", "bootstrap">>
  \o If(profile = "full" /\ hosted, <<"stabilize-hosted-kind">>)
  \o If(profile = "full", <<"start-backup-store">>)
  \o <<"load-images", "deploy-gitops", "test-gitops">>
  \o If(profile = "full", <<"verify-data">>)

DownStages(profile) ==
  <<"undeploy-gitops", "destroy">> \o If(profile = "full", <<"stop-backup-store">>)

VerifyStages(profile) == <<"test-gitops">> \o If(profile = "full", <<"verify-data">>)

Stages(command, profile, hosted) ==
  CASE command = "up"     -> UpStages(profile, hosted)
    [] command = "down"   -> DownStages(profile)
    [] command = "verify" -> VerifyStages(profile)

NotInvoked == [command |-> "up", stages |-> << >>, at |-> 1, pc |-> "ended",
               revision |-> NoRevision, state |-> "Failed"]

NoTree == [root |-> "none", child |-> "none", piped |-> FALSE]

PlatformTypeOK ==
  /\ os \in {"unix", "windows"}
  /\ invocation.command \in Subcommand
  /\ invocation.pc \in {"preflight", "resolve", "stage", "starting", "waiting",
                        "draining", "ended"}
  /\ invocation.pc # "ended" => invocation.at \in 1..Len(invocation.stages)
  /\ invocation.revision \in Revision \cup {NoRevision}
  /\ invocation.state \in {"Running", "Completed", "Failed", "Died"}
  /\ tree \in [root: {"none", "running", "ok", "failed"},
               child: {"none", "inside", "away"}, piped: BOOLEAN]
  /\ due \in BOOLEAN /\ interrupted \in BOOLEAN
  /\ Len(outcomes) <= Len(invocation.stages)
  /\ strays \subseteq [inside: BOOLEAN, cut: BOOLEAN]
  /\ invocations \in 0..MaxInvocations

PlatformInit ==
  /\ os \in {"unix", "windows"}
  /\ invocation = NotInvoked /\ tree = NoTree
  /\ due = FALSE /\ interrupted = FALSE
  /\ outcomes = << >> /\ strays = {} /\ invocations = 0

-----------------------------------------------------------------------------
(* The command *)

Proceed(pc) == invocation' = [invocation EXCEPT !.pc = pc]

\* up validates and resolves HEAD before its stages, verify before each stage,
\* down never.
Invoke(command, profile, hosted) ==
  /\ invocation.pc = "ended" /\ invocations < MaxInvocations
  /\ invocations' = invocations + 1
  /\ invocation' =
       [command |-> command, stages |-> Stages(command, profile, hosted), at |-> 1,
        pc |-> CASE command = "up" -> "preflight" [] command = "down" -> "stage"
                 [] command = "verify" -> "resolve",
        revision |-> NoRevision, state |-> "Running"]
  /\ tree' = NoTree /\ due' = FALSE /\ interrupted' = FALSE /\ outcomes' = << >>
  /\ UNCHANGED <<os, strays>>

Fail == invocation' = [invocation EXCEPT !.pc = "ended", !.state = "Failed"]

\* runPlatformUpPreflight: a blocking check fails, or none does.
Preflight ==
  /\ invocation.pc = "preflight"
  /\ \/ ~interrupted /\ Proceed("resolve")
     \/ Fail
  /\ UNCHANGED <<os, tree, due, interrupted, outcomes, strays, invocations>>

\* checkoutHeadRevision.
Resolve(head) ==
  /\ invocation.pc = "resolve"
  /\ \/ ~interrupted /\ invocation' = [invocation EXCEPT !.pc = "stage", !.revision = head]
     \/ Fail
  /\ UNCHANGED <<os, tree, due, interrupted, outcomes, strays, invocations>>

\* Mutant of StopsAt: down gives up at its first failure as up does.
StopsAtAny(ok) == ~ok

\* Mutant of StopsAt: up goes on to a stage after one that failed.
StopsVerifyOnly(ok) == ~ok /\ invocation.command = "verify"

\* A stage that fails ends up and verify; down goes on.
StopsAt(ok) == ~ok /\ invocation.command # "down"

\* What a stage's end, as it was reported, makes of the command.
Advance(ok) ==
  LET all == ok /\ \A k \in DOMAIN outcomes : outcomes[k].ok
  IN invocation' =
       CASE StopsAt(ok) -> [invocation EXCEPT !.pc = "ended", !.state = "Failed"]
         [] ~StopsAt(ok) /\ invocation.at = Len(invocation.stages) ->
              [invocation EXCEPT !.pc = "ended",
                                 !.state = IF all THEN "Completed" ELSE "Failed"]
         [] OTHER ->
              [invocation EXCEPT !.at = @ + 1,
                 !.pc = IF invocation.command = "verify" THEN "resolve" ELSE "stage"]

-----------------------------------------------------------------------------
(* A stage *)

\* The processes of a tree that run on, by now.
Running(t, cut) ==
  {[inside |-> TRUE, cut |-> cut] : r \in {t.root} \cap {"running"}}
  \cup {[inside |-> c = "inside", cut |-> cut] : c \in {t.child} \ {"none"}}

\* A group or a job is killed as a whole.
TreeKilled(t) ==
  [t EXCEPT !.root = IF @ = "running" THEN "failed" ELSE @,
            !.child = IF @ = "inside" THEN "none" ELSE @]

\* Killing one process leaves its children.
RootKilled(t) == [t EXCEPT !.root = IF @ = "running" THEN "failed" ELSE @]

\* Mutant of TreeClosed: the handle of the job is kept.
TreeKept(t) == t

\* tree.close, or the end of platformctl: Windows kills the job with its last
\* handle, Unix has nothing to close.
TreeClosed(t) == IF os = "windows" THEN TreeKilled(t) ELSE t

\* Wait has returned: the root has ended, and with it or after it whoever
\* held its output pipes.
Waited == tree.root \in {"ok", "failed"} /\ (tree.child = "none" \/ ~tree.piped)

Expired == due \/ interrupted

\* The end of runPlatformStage.
EndStage(ok, cut) ==
  /\ outcomes' = Append(outcomes, [exit |-> tree.root, ok |-> ok,
                                   revision |-> invocation.revision])
  /\ strays' = strays \cup Running(TreeClosed(tree), cut)
  /\ tree' = NoTree /\ due' = FALSE
  /\ Advance(ok)
  /\ UNCHANGED <<os, interrupted, invocations>>

\* PowerShell is started, with the stage's deadline running, or is not.
BeginStage ==
  /\ invocation.pc = "stage"
  /\ \/ /\ tree' = [NoTree EXCEPT !.root = "running"]
        /\ Proceed("starting")
        /\ UNCHANGED <<os, due, interrupted, outcomes, strays, invocations>>
     \/ EndStage(FALSE, FALSE)

\* afterStart puts the root into the job; if Windows refuses, the root alone
\* is killed.
AfterStart ==
  /\ invocation.pc = "starting"
  /\ \/ Proceed("waiting") /\ UNCHANGED tree
     \/ os = "windows" /\ tree' = RootKilled(tree) /\ Proceed("draining")
  /\ UNCHANGED <<os, due, interrupted, outcomes, strays, invocations>>

\* The stage ended by itself.  Its error counts as a timeout if the deadline
\* has passed by now.
Return ==
  /\ invocation.pc = "waiting" /\ Waited
  /\ EndStage(tree.root = "ok", FALSE)

\* Mutant of Terminated: the signal goes to the process, not to its group.
TerminatedRoot == RootKilled(tree)

Terminated == TreeKilled(tree)

\* The deadline or Ctrl-C, also when the stage has just ended: select takes
\* either.  Windows may refuse to terminate a job.
CutOff ==
  /\ invocation.pc = "waiting" /\ Expired
  /\ tree' = Terminated \/ (os = "windows" /\ UNCHANGED tree)
  /\ Proceed("draining")
  /\ UNCHANGED <<os, due, interrupted, outcomes, strays, invocations>>

\* Wait returned, or the grace of 15 seconds is over.
Drain ==
  /\ invocation.pc = "draining"
  /\ EndStage(FALSE, TRUE)

-----------------------------------------------------------------------------
(* The scripts, the clock and the operator *)

\* Windows counts a descendant to the job if its parent was in it.
Spawn(where, piped) ==
  /\ tree.root = "running" /\ tree.child = "none"
  /\ os = "windows" => (where = "away" <=> invocation.pc = "starting")
  /\ tree' = [tree EXCEPT !.child = where, !.piped = piped]
  /\ UNCHANGED <<os, invocation, due, interrupted, outcomes, strays, invocations>>

RootExits(ok) ==
  /\ tree.root = "running"
  /\ tree' = [tree EXCEPT !.root = IF ok THEN "ok" ELSE "failed"]
  /\ UNCHANGED <<os, invocation, due, interrupted, outcomes, strays, invocations>>

ChildExits ==
  /\ tree.child # "none"
  /\ tree' = [tree EXCEPT !.child = "none"]
  /\ UNCHANGED <<os, invocation, due, interrupted, outcomes, strays, invocations>>

StrayExits(s) ==
  /\ strays' = strays \ {s}
  /\ UNCHANGED <<os, invocation, tree, due, interrupted, outcomes, invocations>>

DeadlinePasses ==
  /\ invocation.pc \in {"starting", "waiting"} /\ ~due
  /\ due' = TRUE
  /\ UNCHANGED <<os, invocation, tree, interrupted, outcomes, strays, invocations>>

\* The context of the command is cancelled: that of every stage that follows is
\* from its start.
PressCtrlC ==
  /\ invocation.pc # "ended" /\ ~interrupted
  /\ interrupted' = TRUE
  /\ UNCHANGED <<os, invocation, tree, due, outcomes, strays, invocations>>

\* platformctl is killed.
CommandKilled ==
  /\ invocation.pc # "ended"
  /\ invocation' = [invocation EXCEPT !.pc = "ended", !.state = "Died"]
  /\ strays' = strays \cup Running(TreeClosed(tree), FALSE)
  /\ tree' = NoTree
  /\ UNCHANGED <<os, due, interrupted, outcomes, invocations>>

PlatformNext(head) ==
  \/ \E command \in Subcommand, profile \in Profile, hosted \in BOOLEAN :
       Invoke(command, profile, hosted)
  \/ Preflight \/ Resolve(head)
  \/ BeginStage \/ AfterStart \/ Return \/ CutOff \/ Drain
  \/ \E where \in {"inside", "away"}, piped \in BOOLEAN : Spawn(where, piped)
  \/ \E ok \in BOOLEAN : RootExits(ok)
  \/ ChildExits \/ DeadlinePasses \/ PressCtrlC \/ CommandKilled
  \/ \E s \in strays : StrayExits(s)

-----------------------------------------------------------------------------
(* Properties *)

\* docs/troubleshooting.md: "A deadline closes the complete PowerShell/Docker
\* child process tree, so a timed out build cannot continue invisibly".  No
\* process of a stage's group or job outlives a stage that was cut off, into
\* the next stage or the next command, although the kill may be refused and
\* the grace may run out; on Windows none outlives any stage.
NothingRunsOn == \A s \in strays : s.inside => os = "unix" /\ ~s.cut

\* docs/troubleshooting.md: "`platform up` preserves a failed environment",
\* "`platform down` still attempts" everything after a failure.  A stage of up
\* or verify follows only on scripts that succeeded, all for up at the revision
\* that was resolved first; a down that ends has tried every stage; and
\* "Completed" is said only if every script did succeed, whichever of its end
\* and its deadline was taken.
StagesTell ==
  LET stages == invocation.stages
      Succeeded(k) == outcomes[k].exit = "ok"
      Over == invocation.pc = "ended" /\ invocation.state # "Died"
  IN /\ invocation.command # "down" =>
          \A k \in DOMAIN outcomes : k < Len(outcomes) \/ invocation.pc # "ended" => Succeeded(k)
     /\ invocation.command = "up" =>
          \A j, k \in DOMAIN outcomes : outcomes[j].revision = outcomes[k].revision
     /\ invocation.command = "down" /\ Over => Len(outcomes) = Len(stages)
     /\ Over /\ invocation.state = "Completed" =>
          Len(outcomes) = Len(stages) /\ \A k \in DOMAIN outcomes : Succeeded(k)

=============================================================================
