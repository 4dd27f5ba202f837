------------------------- MODULE SessionWorkflowProofs -------------------------
(***************************************************************************)
(* What a session promises, for any number of messages, batches, approvals *)
(* and crashes: IInv of SessionWorkflow is inductive.  Its parts fall into *)
(* three: what the queue and the job hold (JobAtWork, StartCloses,         *)
(* NothingLost, TurnHeld), the plan (PlanHeld, ApproveHeld, PlanCoherent)  *)
(* and the integration (ApplyHeld, OneRequestAtATime, IntegrationHonest);  *)
(* an action disturbs the parts that speak of what it changes.             *)
(***************************************************************************)
EXTENDS SessionWorkflow, FiniteSetTheorems, SequenceTheorems, WellFoundedInduction, TLAPS

-----------------------------------------------------------------------------
(* Commands. *)

(* The commands of a message are commands, none of them another's.         *)
LEMMA MessageCommands ==
    ASSUME NEW m \in Messages
    PROVE  /\ <<"append", m>> \in Cmds /\ <<"turn", m>> \in OrchestrationCmds
           /\ <<"plan", m>> \in OrchestrationCmds /\ <<"approve", m>> \in OrchestrationCmds
BY DEF Cmds, OrchestrationCmds, AppendCmds, TurnCmds, PlanCmds, ApproveCmds, OfMessage

(* The commands of a batch are commands.                                   *)
LEMMA BatchCommands ==
    ASSUME NEW b \in Batches
    PROVE  /\ <<"preview", b>> \in OrchestrationCmds /\ <<"resolve", b>> \in OrchestrationCmds
           /\ \A k \in Approvals[b] : <<"apply", b, k>> \in OrchestrationCmds
BY DEF OrchestrationCmds, PreviewCmds, ResolveCmds, ApplyCmds

(* The kind of a command says what it is about.                            *)
LEMMA KindOfCommand ==
    ASSUME NEW c \in Cmds
    PROVE  /\ c[1] \in {"append", "turn", "plan", "approve"} =>
                  c[2] \in Messages /\ c = <<c[1], c[2]>>
           /\ c[1] \in {"preview", "resolve"} => c[2] \in Batches /\ c = <<c[1], c[2]>>
           /\ c[1] = "apply" => c[2] \in Batches
           /\ c[1] \in {"append", "turn", "plan", "approve", "preview", "apply", "resolve"}
           /\ c \in OrchestrationCmds => c[1] # "append"
BY DEF Cmds, OrchestrationCmds, ApplyCmds, TurnCmds, PlanCmds, ApproveCmds, PreviewCmds,
       ResolveCmds, AppendCmds, OfMessage

(* The commands that a restart may requeue, by their kind.                 *)
LEMMA ReplaySafeKinds ==
    ASSUME NEW c \in Cmds
    PROVE  c \in ReplaySafe <=> c[1] \notin {"apply", "resolve"}
<1>1. c[1] \in {"apply", "resolve"} <=> c \in ApplyCmds \cup ResolveCmds
    BY DEF Cmds, OrchestrationCmds, ApplyCmds, TurnCmds, PlanCmds, ApproveCmds, PreviewCmds,
           ResolveCmds, AppendCmds, OfMessage
<1> QED
    BY <1>1 DEF ReplaySafe

(* The job has a command, or is idle.                                      *)
LEMMA JobKinds ==
    ASSUME TypeOK
    PROVE  /\ job.cmd \in Cmds \/ job.cmd = <<"none">>
           /\ job.cmd # <<"none">> => job.cmd \in OrchestrationCmds
           /\ job.cmd = <<"none">> => job.cmd[1] = "none"
           /\ job.cmd[1] \in {"turn", "plan", "approve"} =>
                  job.cmd[2] \in Messages /\ job.cmd = <<job.cmd[1], job.cmd[2]>>
           /\ job.cmd[1] \in {"preview", "resolve"} =>
                  job.cmd[2] \in Batches /\ job.cmd = <<job.cmd[1], job.cmd[2]>>
           /\ job.cmd[1] = "apply" => job.cmd[2] \in Batches
           /\ job.cmd[1] \in {"none", "turn", "plan", "approve", "preview", "apply", "resolve"}
<1>1. job.cmd \in OrchestrationCmds \cup {<<"none">>}
    BY DEF TypeOK, Jobs
<1>2. OrchestrationCmds \subseteq Cmds
    BY DEF Cmds
<1> QED
    BY <1>1, <1>2, KindOfCommand

-----------------------------------------------------------------------------
(* Steps of the job. *)

(* Going on: only the place changes.                                       *)
LEMMA GotoFacts ==
    ASSUME TypeOK, NEW p \in JobPcs, Goto(p)
    PROVE  /\ job' \in Jobs /\ job'.pc = p /\ job'.cmd = job.cmd /\ job'.next = job.next
           /\ job'.fresh = job.fresh /\ job'.verdict = job.verdict
BY DEF TypeOK, Jobs, Goto

(* A transition finds the session there, loads it for the update, or       *)
(* refuses.                                                                *)
LEMMA TransitionFacts ==
    ASSUME TypeOK, NEW next \in SessionStates, NEW from, NEW then \in JobPcs, NEW else \in JobPcs,
           Transition(next, from, then, else)
    PROVE  /\ job' \in Jobs /\ job'.cmd = job.cmd /\ job'.verdict = job.verdict
           /\ \/ job'.pc = then /\ session = next
              \/ job'.pc = "cas" /\ job'.next = next /\ session \in from
              \/ job'.pc = else
           /\ job'.pc \in {then, else, "cas"}
<1>1. CASE session = next
    BY <1>1 DEF TypeOK, Jobs, Transition
<1>2. CASE session # next /\ session \in from /\ next \in Edges[session]
    BY <1>2 DEF TypeOK, Jobs, Transition, JobPcs
<1>3. CASE session # next /\ ~ (session \in from /\ next \in Edges[session])
    BY <1>3 DEF TypeOK, Jobs, Transition
<1> QED
    BY <1>1, <1>2, <1>3

-----------------------------------------------------------------------------
(* What a step keeps when it leaves alone what is spoken of. *)

(* The job goes on; an attempt changes only at its hands.                  *)
LEMMA QueueFrame ==
    ASSUME IInv, UNCHANGED <<proc, cmd, append, posted>>, proc = "up",
           job' \in Jobs, job'.cmd = job.cmd, job.cmd # <<"none">>, job'.pc \in PcsOf[job.cmd[1]],
           \A m \in Messages : attempt'[m] = attempt[m] \/ job.cmd = <<"turn", m>>
    PROVE  JobAtWork' /\ StartCloses' /\ NothingLost'
<1>1. job # NoJob /\ job' # NoJob /\ cmd[job.cmd] = "claimed"
    BY DEF IInv, JobAtWork, NoJob
<1>2. JobAtWork' /\ StartCloses'
    BY <1>1 DEF JobAtWork, StartCloses
<1>3. FollowUpsQueued'
    BY <1>1 DEF IInv, NothingLost, FollowUpsQueued
<1>4. NothingLeftOpen'
    BY DEF IInv, NothingLost, NothingLeftOpen
<1> QED
    BY <1>2, <1>3, <1>4 DEF NothingLost

(* Session and graphs are left alone.                                      *)
LEMMA PlanFrame ==
    ASSUME IInv, UNCHANGED <<session, rev, head>>
    PROVE  PlanCoherent'
BY DEF IInv, PlanCoherent, OneLiveGraph, AwaitingShowsProposal

(* Batches are left alone, and so is the session.                          *)
LEMMA IntegrationFrame ==
    ASSUME IInv, UNCHANGED <<session, batch, applied>>
    PROVE  IntegrationHonest'
BY DEF IInv, IntegrationHonest, CompletedByApplication, AppliedOnce

(* No preview command changes.                                             *)
LEMMA RequestFrame ==
    ASSUME IInv, \A b \in Batches : cmd'[<<"preview", b>>] = cmd[<<"preview", b>>],
           \A b \in Batches : batch'[b].st = "none" \/ batch[b].st # "none"
    PROVE  OneRequestAtATime'
BY DEF IInv, OneRequestAtATime

(* A step of the job that changes nothing but the job.                     *)
LEMMA JobMoves ==
    ASSUME IInv, proc = "up",
           UNCHANGED <<jobFrame, cmd, session, turnVars, graphVars, taskVars, intVars>>,
           job' \in Jobs, job'.cmd = job.cmd, job.cmd # <<"none">>, job'.pc \in PcsOf[job.cmd[1]],
           TurnHeld', PlanHeld', ApproveHeld', ApplyHeld'
    PROVE  IInv'
<1> USE DEF jobFrame, turnVars, graphVars, taskVars, intVars
<1>1. TypeOK'
    BY DEF IInv, TypeOK
<1>2. JobAtWork' /\ StartCloses' /\ NothingLost'
    BY QueueFrame
<1>3. PlanCoherent' /\ IntegrationHonest' /\ OneRequestAtATime'
    BY PlanFrame, IntegrationFrame, RequestFrame
<1> QED
    BY <1>1, <1>2, <1>3 DEF IInv

(* The job is at a command of its kind.                                    *)
LEMMA AtFacts ==
    ASSUME IInv, NEW kind, NEW pc, At(kind, pc), pc # "idle"
    PROVE  /\ proc = "up" /\ job.cmd # <<"none">> /\ job.cmd[1] = kind /\ job.pc = pc
           /\ job # NoJob /\ cmd[job.cmd] = "claimed"
<1>1. job.cmd # <<"none">>
    BY DEF At, IInv, JobAtWork, NoJob
<1> QED
    BY <1>1 DEF At, IInv, JobAtWork, NoJob

(* The steps of a turn that only move the job.                             *)
LEMMA AppendResponseOK ==
    ASSUME IInv, NEW m \in Messages, AppendResponse(m)
    PROVE  IInv'
<1> DEFINE p == IF attempt[m] \in {"more", "candidate"} THEN "require" ELSE TurnResult(m)
<1>1. p \in {"require", "fail", "ok"} /\ p \in JobPcs /\ Goto(p)
    BY DEF AppendResponse, TurnResult, JobPcs
<1> HIDE DEF p
<1>2. /\ job' \in Jobs /\ job'.pc = p /\ job'.cmd = job.cmd
    BY <1>1, GotoFacts DEF IInv
<1>3. /\ proc = "up" /\ job.cmd # <<"none">> /\ job.cmd[1] = "turn" /\ job.pc = "respond"
      /\ job.cmd[2] = m
    BY AtFacts DEF AppendResponse
<1>4. UNCHANGED <<jobFrame, cmd, session, turnVars, graphVars, taskVars, intVars>>
    BY DEF AppendResponse, turnVars
<1>5. TurnHeld'
    BY <1>1, <1>2, <1>3, <1>4 DEF TurnHeld, IInv, turnVars, p, TurnResult
<1>6. PlanHeld' /\ ApproveHeld' /\ ApplyHeld'
    BY <1>1, <1>2 DEF PlanHeld, ApproveHeld, ApplyHeld, Updating, Drawing
<1>7. job'.pc \in PcsOf[job.cmd[1]]
    BY <1>1, <1>2, <1>3 DEF PcsOf
<1> QED
    BY <1>2, <1>3, <1>4, <1>5, <1>6, <1>7, JobMoves

-----------------------------------------------------------------------------
(* Planning. *)

(* A finished revision is reconciled with the session, or planning starts. *)
LEMMA PlanCheckOK ==
    ASSUME IInv, NEW m \in Messages, PlanCheck(m)
    PROVE  IInv'
<1>1. /\ proc = "up" /\ job.cmd # <<"none">> /\ job.cmd[1] = "plan" /\ job.pc = "plan_check"
      /\ job.cmd[2] = m
    BY AtFacts DEF PlanCheck
<1>2. UNCHANGED <<jobFrame, cmd, session, turnVars, graphVars, taskVars, intVars>>
    BY DEF PlanCheck
<1>3. CASE rev[m] \in DOMAIN PlanResult
    <2>1. PlanResult[rev[m]] \in {"awaiting_approval", "needs_attention", "running"}
          /\ (PlanResult[rev[m]] = "awaiting_approval" => rev[m] = "awaiting")
        BY <1>3 DEF PlanResult
    <2>2. Transition(PlanResult[rev[m]], FromPlanning, "ok", "fail")
        BY <1>3 DEF PlanCheck
    <2>3. /\ job' \in Jobs /\ job'.cmd = job.cmd
          /\ job'.pc \in {"ok", "fail", "cas"}
          /\ job'.pc = "cas" => job'.next = PlanResult[rev[m]] /\ session \in FromPlanning
        <3>1. PlanResult[rev[m]] \in SessionStates /\ "ok" \in JobPcs /\ "fail" \in JobPcs
            BY <2>1 DEF SessionStates, JobPcs
        <3>2. TypeOK
            BY DEF IInv
        <3>3. /\ job' \in Jobs /\ job'.cmd = job.cmd
              /\ \/ job'.pc = "ok"
                 \/ job'.pc = "cas" /\ job'.next = PlanResult[rev[m]] /\ session \in FromPlanning
                 \/ job'.pc = "fail"
            BY <2>2, <3>1, <3>2, TransitionFacts
        <3> QED
            BY <3>3
    <2>4. PlanHeld'
        BY <1>1, <1>2, <2>1, <2>3 DEF PlanHeld, Updating, Drawing, graphVars
    <2>5. ApproveHeld' /\ ApplyHeld' /\ TurnHeld'
        BY <1>1, <2>1, <2>3 DEF ApproveHeld, ApplyHeld, TurnHeld, Updating
    <2>6. job'.pc \in PcsOf[job.cmd[1]]
        BY <1>1, <2>3 DEF PcsOf, Ends
    <2> QED
        BY <1>1, <1>2, <2>3, <2>4, <2>5, <2>6, JobMoves
<1>4. CASE rev[m] \notin DOMAIN PlanResult
    <2>1. /\ job' \in Jobs /\ job'.cmd = job.cmd
          /\ job'.pc \in {"plan_begin", "fail", "cas"}
          /\ job'.pc = "cas" => job'.next = "planning"
          /\ job'.pc = "plan_begin" => session = "planning"
        <3>1. CASE rev[m] = "superseded"
            BY <1>4, <3>1, GotoFacts DEF PlanCheck, IInv, JobPcs
        <3>2. CASE rev[m] # "superseded"
            <4>1. Transition("planning", {"drafting", "needs_attention", "awaiting_approval"},
                             "plan_begin", "fail")
                BY <1>4, <3>2 DEF PlanCheck, ToPlanning
            <4>2. "planning" \in SessionStates /\ "plan_begin" \in JobPcs /\ "fail" \in JobPcs
                BY DEF SessionStates, JobPcs
            <4> QED
                BY <4>1, <4>2, TransitionFacts DEF IInv
        <3> QED
            BY <3>1, <3>2
    <2>2. PlanHeld'
        BY <1>1, <1>2, <2>1 DEF PlanHeld, Updating, Drawing
    <2>3. ApproveHeld' /\ ApplyHeld' /\ TurnHeld'
        BY <1>1, <2>1 DEF ApproveHeld, ApplyHeld, TurnHeld, Updating
    <2>4. job'.pc \in PcsOf[job.cmd[1]]
        BY <1>1, <2>1 DEF PcsOf, Ends
    <2> QED
        BY <1>1, <1>2, <2>1, <2>2, <2>3, <2>4, JobMoves
<1> QED
    BY <1>3, <1>4

(* The planner answers, and the session is taken to validation.            *)
LEMMA ProposeOK ==
    ASSUME IInv, NEW m \in Messages, Propose(m) \/ ToValidating(m)
    PROVE  IInv'
<1>1. /\ proc = "up" /\ job.cmd # <<"none">> /\ job.cmd[1] = "plan"
      /\ job.pc \in {"propose", "to_validating"}
    BY AtFacts DEF Propose, ToValidating
<1>2. UNCHANGED <<jobFrame, cmd, session, turnVars, graphVars, taskVars, intVars>>
    BY DEF Propose, ToValidating
<1>3. /\ job' \in Jobs /\ job'.cmd = job.cmd /\ job'.verdict = job.verdict
      /\ job'.pc \in {"to_validating", "plan_finish", "authority", "cas"}
      /\ job'.pc = "cas" => job'.next = "validating"
    <2>1. {"to_validating", "plan_finish", "authority"} \subseteq JobPcs
          /\ "validating" \in SessionStates
        BY DEF JobPcs, SessionStates
    <2>2. CASE Propose(m)
        BY <2>1, <2>2, GotoFacts DEF Propose, IInv
    <2>3. CASE ToValidating(m)
        BY <2>1, <2>3, TransitionFacts DEF ToValidating, IInv
    <2> QED
        BY <2>2, <2>3
<1>4. session \in {"drafting", "planning", "validating"} /\ job.verdict # "none"
    BY <1>1 DEF IInv, PlanHeld, Drawing
<1>5. PlanHeld'
    BY <1>1, <1>2, <1>3, <1>4 DEF PlanHeld, Updating, Drawing
<1>6. ApproveHeld' /\ ApplyHeld' /\ TurnHeld'
    BY <1>1, <1>3 DEF ApproveHeld, ApplyHeld, TurnHeld, Updating
<1>7. job'.pc \in PcsOf[job.cmd[1]]
    BY <1>1, <1>3 DEF PcsOf, Ends
<1> QED
    BY <1>1, <1>2, <1>3, <1>5, <1>6, <1>7, JobMoves

(* The verdict on the proposal.                                            *)
LEMMA ValidateAuthorityOK ==
    ASSUME IInv, NEW m \in Messages, ValidateAuthority(m)
    PROVE  IInv'
<1>1. /\ proc = "up" /\ job.cmd # <<"none">> /\ job.cmd[1] = "plan" /\ job.pc = "authority"
    BY AtFacts DEF ValidateAuthority
<1>2. UNCHANGED <<jobFrame, cmd, session, turnVars, graphVars, taskVars, intVars>>
    BY DEF ValidateAuthority
<1>3. session \in {"drafting", "planning", "validating"} /\ job.verdict # "none"
    BY <1>1 DEF IInv, PlanHeld, Drawing
<1>4. /\ job' \in Jobs /\ job'.cmd = job.cmd /\ job'.verdict # "none"
      /\ job'.pc = "plan_finish"
    <2>1. job \in Jobs /\ "plan_finish" \in JobPcs
        BY DEF IInv, TypeOK, JobPcs
    <2>2. \/ job' = [job EXCEPT !.pc = "plan_finish", !.verdict = "awaiting"]
          \/ job' = [job EXCEPT !.pc = "plan_finish"]
        BY DEF ValidateAuthority, Goto
    <2> QED
        BY <1>3, <2>1, <2>2 DEF Jobs
<1>5. PlanHeld'
    BY <1>1, <1>2, <1>3, <1>4 DEF PlanHeld, Updating, Drawing
<1>6. ApproveHeld' /\ ApplyHeld' /\ TurnHeld'
    BY <1>1, <1>4 DEF ApproveHeld, ApplyHeld, TurnHeld, Updating
<1>7. job'.pc \in PcsOf[job.cmd[1]]
    BY <1>1, <1>4 DEF PcsOf, Ends
<1> QED
    BY <1>1, <1>2, <1>4, <1>5, <1>6, <1>7, JobMoves

(* The session is loaded to be taken where the verdict says.               *)
LEMMA FinishPlanningOK ==
    ASSUME IInv, NEW m \in Messages, FinishPlanning(m)
    PROVE  IInv'
<1>1. /\ proc = "up" /\ job.cmd # <<"none">> /\ job.cmd[1] = "plan" /\ job.pc = "from_planning"
    BY AtFacts DEF FinishPlanning
<1>2. UNCHANGED <<jobFrame, cmd, session, turnVars, graphVars, taskVars, intVars>>
    BY DEF FinishPlanning
<1>3. job.verdict \in {"invalid", "awaiting"}
    BY <1>1 DEF IInv, PlanHeld, Drawing, TypeOK, Jobs
<1>4. PlanResult[job.verdict] \in {"awaiting_approval", "needs_attention"}
      /\ (PlanResult[job.verdict] = "awaiting_approval" => job.verdict = "awaiting")
    BY <1>3 DEF PlanResult
<1>5. /\ job' \in Jobs /\ job'.cmd = job.cmd
      /\ job'.pc \in {"ok", "fail", "cas"}
      /\ job'.pc = "cas" => job'.next = PlanResult[job.verdict] /\ session \in FromPlanning
    <2>1. Transition(PlanResult[job.verdict], FromPlanning, "ok", "fail")
        BY DEF FinishPlanning
    <2>2. PlanResult[job.verdict] \in SessionStates /\ "ok" \in JobPcs /\ "fail" \in JobPcs
        BY <1>4 DEF SessionStates, JobPcs
    <2> QED
        BY <2>1, <2>2, TransitionFacts DEF IInv
<1>6. job'.pc = "cas" /\ job'.next = "awaiting_approval" => rev[job.cmd[2]] = "awaiting"
    BY <1>1, <1>4, <1>5 DEF IInv, PlanHeld
<1>7. PlanHeld'
    BY <1>1, <1>2, <1>4, <1>5, <1>6 DEF PlanHeld, Updating, Drawing, graphVars
<1>8. ApproveHeld' /\ ApplyHeld' /\ TurnHeld'
    BY <1>1, <1>4, <1>5 DEF ApproveHeld, ApplyHeld, TurnHeld, Updating
<1>9. job'.pc \in PcsOf[job.cmd[1]]
    BY <1>1, <1>5 DEF PcsOf, Ends
<1> QED
    BY <1>1, <1>2, <1>5, <1>7, <1>8, <1>9, JobMoves

-----------------------------------------------------------------------------
(* Moves without a batch in hand, and those of an application. *)

(* The proposal is approved under the requirement revision it was made for,*)
(* and the session is loaded to be taken to running.                       *)
LEMMA ApproveStepOK ==
    ASSUME IInv, NEW m \in Messages, ApproveCheck(m) \/ ApprovedSession(m)
    PROVE  IInv'
<1>1. /\ proc = "up" /\ job.cmd # <<"none">> /\ job.cmd[1] = "approve" /\ job.cmd[2] = m
    BY AtFacts DEF ApproveCheck, ApprovedSession
<1>2. UNCHANGED <<jobFrame, cmd, session, turnVars, graphVars, taskVars, intVars>>
    BY DEF ApproveCheck, ApprovedSession
<1>3. /\ job' \in Jobs /\ job'.cmd = job.cmd
      /\ job'.pc \in {"materialize", "ok", "fail", "cas"}
      /\ job'.pc = "cas" => job'.next = "running"
      /\ job'.pc = "materialize" => RequirementHead = m
    <2>1. {"materialize", "ok", "fail"} \subseteq JobPcs /\ "running" \in SessionStates
        BY DEF JobPcs, SessionStates
    <2>2. CASE ApproveCheck(m)
        BY <2>1, <2>2, GotoFacts DEF ApproveCheck, IInv
    <2>3. CASE ApprovedSession(m)
        <3>1. Transition("running", {"awaiting_approval"}, "ok", "fail")
            BY <2>3 DEF ApprovedSession
        <3>2. "running" \in SessionStates /\ "ok" \in JobPcs /\ "fail" \in JobPcs
            BY DEF SessionStates, JobPcs
        <3> QED
            BY <3>1, <3>2, TransitionFacts DEF IInv
    <2> QED
        BY <2>2, <2>3
<1>4. ApproveHeld'
    BY <1>1, <1>2, <1>3 DEF ApproveHeld, RequirementHead, turnVars
<1>5. PlanHeld' /\ ApplyHeld' /\ TurnHeld'
    BY <1>1, <1>3 DEF PlanHeld, Drawing, ApplyHeld, TurnHeld, Updating
<1>6. job'.pc \in PcsOf[job.cmd[1]]
    BY <1>1, <1>3 DEF PcsOf, Ends
<1> QED
    BY <1>1, <1>2, <1>3, <1>4, <1>5, <1>6, JobMoves

(* transition_session of integration.rs.                                   *)
LEMMA MoveFacts ==
    ASSUME IInv, NEW kind, NEW pc, NEW next \in SessionStates,
           NEW then \in JobPcs, NEW else \in JobPcs,
           Move(kind, pc, next, then, else), pc # "idle"
    PROVE  /\ proc = "up" /\ job.cmd # <<"none">> /\ job.cmd[1] = kind /\ job.pc = pc
           /\ UNCHANGED <<jobFrame, cmd, session, turnVars, graphVars, taskVars, intVars>>
           /\ job' \in Jobs /\ job'.cmd = job.cmd
           /\ job'.pc \in {then, else, "cas"}
           /\ job'.pc = "cas" => job'.next = next \/ job'.pc \in {then, else}
<1>1. At(kind, pc) /\ Transition(next, SessionStates, then, else)
      /\ UNCHANGED <<jobFrame, cmd, session, turnVars, graphVars, taskVars, intVars>>
    BY DEF Move
<1>2. /\ proc = "up" /\ job.cmd # <<"none">> /\ job.cmd[1] = kind /\ job.pc = pc
    BY <1>1, AtFacts
<1>3. TypeOK
    BY DEF IInv
<1> QED
    BY <1>1, <1>2, <1>3, TransitionFacts

(* Moves of a preview, a resolution and a failed application.              *)
LEMMA MoveAsideOK ==
    ASSUME IInv, PreviewBlocked \/ ToRunning \/ ApplyNeedsAttention
    PROVE  IInv'
<1>1. /\ proc = "up" /\ job.cmd # <<"none">> /\ job.cmd[1] \in {"preview", "resolve", "apply"}
      /\ UNCHANGED <<jobFrame, cmd, session, turnVars, graphVars, taskVars, intVars>>
      /\ job' \in Jobs /\ job'.cmd = job.cmd
      /\ job'.pc \in {"ok", "fail", "cas"}
      /\ job'.pc = "cas" => job'.next \in {"needs_attention", "running"}
    <2>1. {"ok", "fail"} \subseteq JobPcs /\ {"needs_attention", "running"} \subseteq SessionStates
        BY DEF JobPcs, SessionStates
    <2>2. CASE PreviewBlocked
        BY <2>1, <2>2, MoveFacts DEF PreviewBlocked
    <2>3. CASE ToRunning
        BY <2>1, <2>3, MoveFacts DEF ToRunning
    <2>4. CASE ApplyNeedsAttention
        BY <2>1, <2>4, MoveFacts DEF ApplyNeedsAttention
    <2> QED
        BY <2>2, <2>3, <2>4
<1>2. PlanHeld' /\ ApproveHeld' /\ ApplyHeld' /\ TurnHeld'
    BY <1>1 DEF PlanHeld, Drawing, ApproveHeld, ApplyHeld, TurnHeld, Updating
<1>3. job'.pc \in PcsOf[job.cmd[1]]
    BY <1>1 DEF PcsOf, Ends
<1> QED
    BY <1>1, <1>2, <1>3, JobMoves

(* Moves of an application: to integrating with the approved batch, to     *)
(* verifying and completed with the applied one.                           *)
LEMMA MoveApplyOK ==
    ASSUME IInv, ToIntegrating \/ ToVerifying \/ ToCompleted
    PROVE  IInv'
<1>1. {"apply_build", "to_completed", "ok", "fail"} \subseteq JobPcs
      /\ {"integrating", "verifying", "completed"} \subseteq SessionStates
    BY DEF JobPcs, SessionStates
<1>2. CASE ToIntegrating
    <2>1. /\ proc = "up" /\ job.cmd # <<"none">> /\ job.cmd[1] = "apply"
          /\ job.pc = "to_integrating"
          /\ UNCHANGED <<jobFrame, cmd, session, turnVars, graphVars, taskVars, intVars>>
          /\ job' \in Jobs /\ job'.cmd = job.cmd
          /\ job'.pc \in {"apply_build", "fail", "cas"}
          /\ job'.pc = "cas" => job'.next = "integrating"
        BY <1>1, <1>2, MoveFacts DEF ToIntegrating
    <2>2. ApplyHeld'
        BY <2>1 DEF IInv, ApplyHeld, Updating, intVars
    <2>3. PlanHeld' /\ ApproveHeld' /\ TurnHeld' /\ job'.pc \in PcsOf[job.cmd[1]]
        BY <2>1 DEF PlanHeld, Drawing, ApproveHeld, TurnHeld, Updating, PcsOf, Ends
    <2> QED
        BY <2>1, <2>2, <2>3, JobMoves
<1>3. CASE ToVerifying \/ ToCompleted
    <2>1. /\ proc = "up" /\ job.cmd # <<"none">> /\ job.cmd[1] = "apply"
          /\ job.pc \in {"to_verifying", "to_completed"}
          /\ UNCHANGED <<jobFrame, cmd, session, turnVars, graphVars, taskVars, intVars>>
          /\ job' \in Jobs /\ job'.cmd = job.cmd
          /\ job'.pc \in {"to_completed", "ok", "fail", "cas"}
          /\ job'.pc = "cas" => job'.next \in {"verifying", "completed"}
        <3>1. CASE ToVerifying
            BY <1>1, <3>1, MoveFacts DEF ToVerifying
        <3>2. CASE ToCompleted
            BY <1>1, <3>2, MoveFacts DEF ToCompleted
        <3> QED
            BY <1>3, <3>1, <3>2
    <2>2. ApplyHeld'
        BY <2>1 DEF IInv, ApplyHeld, Updating, intVars
    <2>3. PlanHeld' /\ ApproveHeld' /\ TurnHeld' /\ job'.pc \in PcsOf[job.cmd[1]]
        BY <2>1 DEF PlanHeld, Drawing, ApproveHeld, TurnHeld, Updating, PcsOf, Ends
    <2> QED
        BY <2>1, <2>2, <2>3, JobMoves
<1> QED
    BY <1>2, <1>3

-----------------------------------------------------------------------------
(* A conversation turn. *)

(* The attempt is begun and closed at the hands of the job.                *)
LEMMA TurnOK ==
    ASSUME IInv, NEW m \in Messages, TurnCheck(m) \/ Converse(m)
    PROVE  IInv'
<1> USE DEF jobFrame, graphVars, taskVars, intVars
<1>1. /\ proc = "up" /\ job.cmd # <<"none">> /\ job.cmd[1] = "turn" /\ job.cmd[2] = m
      /\ job.pc \in {"turn_check", "converse"}
    BY AtFacts DEF TurnCheck, Converse
<1>2. job.cmd = <<"turn", m>>
    BY <1>1, JobKinds DEF IInv
<1>3. UNCHANGED <<jobFrame, cmd, session, reqs, graphVars, taskVars, intVars>>
    BY DEF TurnCheck, Converse
<1>4. job.pc = "turn_check" => attempt[m] # "running"
    BY <1>1 DEF IInv, TurnHeld
<1>5. /\ attempt' \in [Messages -> {"none", "running", "failed"} \cup Outcomes]
      /\ \A n \in Messages : n # m => attempt'[n] = attempt[n]
    BY DEF TurnCheck, Converse, BeginAttempt, FinishAttempt, FailAttempt, IInv, TypeOK, Outcomes
<1>6. /\ job' \in Jobs /\ job'.cmd = job.cmd /\ job'.pc \in {"respond", "converse", "fail"}
      /\ attempt'[m] = "running" <=> job'.pc = "converse"
    <2>1. "respond" \in JobPcs /\ "converse" \in JobPcs /\ "fail" \in JobPcs /\ TypeOK
        BY DEF JobPcs, IInv
    <2>2. CASE TurnCheck(m)
        <3>1. \/ Goto("respond") /\ attempt' = attempt
              \/ attempt' = [attempt EXCEPT ![m] = "running"] /\ Goto("converse")
              \/ Goto("fail") /\ attempt' = attempt
            BY <2>2 DEF TurnCheck, BeginAttempt
        <3>2. attempt[m] # "running"
            BY <2>2, <1>4 DEF TurnCheck, At
        <3>3. attempt \in [Messages -> {"none", "running", "failed"} \cup Outcomes]
            BY DEF IInv, TypeOK
        <3> QED
            BY <2>1, <3>1, <3>2, <3>3, GotoFacts
    <2>3. CASE Converse(m)
        <3>1. Goto("respond") /\ \E o \in Outcomes \cup {"failed"} : attempt' = [attempt EXCEPT ![m] = o]
            BY <2>3 DEF Converse, FailAttempt, FinishAttempt
        <3>2. attempt'[m] # "running"
            BY <3>1 DEF IInv, TypeOK, Outcomes
        <3> QED
            BY <2>1, <3>1, <3>2, GotoFacts
    <2> QED
        BY <2>2, <2>3
<1>7. TypeOK'
    BY <1>3, <1>5, <1>6 DEF IInv, TypeOK
<1>8. TurnHeld'
    BY <1>1, <1>6 DEF TurnHeld
<1>9. PlanHeld' /\ ApproveHeld' /\ ApplyHeld'
    BY <1>6 DEF PlanHeld, ApproveHeld, ApplyHeld, Updating, Drawing
<1>10. JobAtWork' /\ StartCloses' /\ NothingLost'
    <2>1. job'.pc \in PcsOf[job.cmd[1]]
        BY <1>1, <1>6 DEF PcsOf
    <2> QED
        BY <1>1, <1>2, <1>3, <1>5, <1>6, <2>1, QueueFrame
<1> QED
    BY <1>3, <1>7, <1>8, <1>9, <1>10, PlanFrame, IntegrationFrame, RequestFrame DEF IInv

(* The requirement revision of the turn becomes the head, once.            *)
LEMMA RecordRequirementRevisionOK ==
    ASSUME IInv, NEW m \in Messages, RecordRequirementRevision(m)
    PROVE  IInv'
<1> USE DEF jobFrame, graphVars, taskVars, intVars
<1>1. /\ proc = "up" /\ job.cmd # <<"none">> /\ job.cmd[1] = "turn" /\ job.cmd[2] = m
      /\ job.pc = "require"
    BY AtFacts DEF RecordRequirementRevision
<1>2. UNCHANGED <<jobFrame, cmd, session, attempt, graphVars, taskVars, intVars>>
    BY DEF RecordRequirementRevision
<1>3. /\ job' \in Jobs /\ job'.cmd = job.cmd /\ job'.pc \in {"ok", "derive", "fail"}
      /\ job'.pc = "ok" => attempt[m] # "candidate"
    <2>1. "ok" \in JobPcs /\ "derive" \in JobPcs /\ "fail" \in JobPcs /\ TypeOK
        BY DEF JobPcs, IInv
    <2> DEFINE p == IF m \in ToSet(reqs) /\ m # RequirementHead THEN "fail"
                    ELSE IF attempt[m] = "candidate" THEN "derive" ELSE "ok"
    <2>2. Goto(p)
        BY DEF RecordRequirementRevision
    <2>3. p \in {"ok", "derive", "fail"} /\ (p = "ok" => attempt[m] # "candidate")
        OBVIOUS
    <2> HIDE DEF p
    <2> QED
        BY <2>1, <2>2, <2>3, GotoFacts
<1>4. reqs' \in Seq(Messages)
    BY DEF RecordRequirementRevision, IInv, TypeOK
<1>5. TypeOK'
    BY <1>2, <1>3, <1>4 DEF IInv, TypeOK
<1>6. TurnHeld'
    BY <1>1, <1>2, <1>3 DEF IInv, TurnHeld
<1>7. PlanHeld' /\ ApproveHeld' /\ ApplyHeld'
    BY <1>3 DEF PlanHeld, ApproveHeld, ApplyHeld, Updating, Drawing
<1>8. JobAtWork' /\ StartCloses' /\ NothingLost'
    <2>1. job'.pc \in PcsOf[job.cmd[1]]
        BY <1>1, <1>3 DEF PcsOf
    <2> QED
        BY <1>1, <1>2, <1>3, <2>1, QueueFrame
<1> QED
    BY <1>2, <1>5, <1>6, <1>7, <1>8, PlanFrame, IntegrationFrame, RequestFrame DEF IInv

(* A derived command is stored once.                                       *)
LEMMA DerivedFacts ==
    ASSUME TypeOK, NEW c \in Cmds
    PROVE  /\ Derived(cmd, c) \in [Cmds -> CmdStates]
           /\ \A d \in Cmds : \/ Derived(cmd, c)[d] = cmd[d]
                              \/ d = c /\ cmd[d] = "none" /\ Derived(cmd, c)[d] = "pending"
           /\ Derived(cmd, c)[c] # "none"
BY DEF TypeOK, Derived, CmdStates

(* New commands do not disturb what is held.                               *)
LEMMA SubmitFrame ==
    ASSUME IInv, UNCHANGED <<proc, append, posted, attempt>>, proc = "up",
           \/ UNCHANGED job
           \/ job' \in Jobs /\ job'.cmd = job.cmd /\ job.cmd # <<"none">>
                /\ job'.pc \in PcsOf[job.cmd[1]],
           \A c \in Cmds : \/ cmd'[c] = cmd[c]
                           \/ cmd[c] = "none" /\ cmd'[c] = "pending"
    PROVE  JobAtWork' /\ StartCloses' /\ NothingLost'
<1>1. job.cmd # <<"none">> => job.cmd \in Cmds
    BY JobKinds DEF IInv
<1>2. job # NoJob => job.cmd # <<"none">> /\ cmd[job.cmd] = "claimed" /\ cmd'[job.cmd] = "claimed"
    BY <1>1 DEF IInv, JobAtWork
<1>3. job'.cmd = job.cmd /\ (job = NoJob => job' = NoJob)
    BY DEF NoJob
<1>4. JobAtWork' /\ StartCloses'
    BY <1>2, <1>3 DEF IInv, JobAtWork, StartCloses
<1>5. FollowUpsQueued'
    <2>1. \A m \in Messages : <<"turn", m>> \in Cmds /\ <<"plan", m>> \in Cmds
        BY MessageCommands DEF Cmds
    <2> QED
        BY <2>1 DEF IInv, NothingLost, FollowUpsQueued
<1>6. NothingLeftOpen'
    <2>1. ReplaySafe \subseteq Cmds
        BY DEF ReplaySafe
    <2> QED
        BY <1>3, <2>1 DEF IInv, NothingLost, NothingLeftOpen
<1> QED
    BY <1>4, <1>5, <1>6 DEF NothingLost

(* The plan is queued before the turn completes.                           *)
LEMMA DerivePlanOK ==
    ASSUME IInv, NEW m \in Messages, DerivePlan(m)
    PROVE  IInv'
<1> USE DEF jobFrame, turnVars, graphVars, taskVars, intVars
<1>1. /\ proc = "up" /\ job.cmd # <<"none">> /\ job.cmd[1] = "turn" /\ job.cmd[2] = m
      /\ job.pc = "derive"
    BY AtFacts DEF DerivePlan
<1>2. UNCHANGED <<jobFrame, session, turnVars, graphVars, taskVars, intVars>>
    BY DEF DerivePlan
<1>3. job' \in Jobs /\ job'.cmd = job.cmd /\ job'.pc = "ok"
    <2>1. "ok" \in JobPcs /\ TypeOK /\ Goto("ok")
        BY DEF JobPcs, IInv, DerivePlan
    <2> QED
        BY <2>1, GotoFacts
<1>4. <<"plan", m>> \in Cmds
    BY MessageCommands DEF Cmds
<1>5. /\ cmd' \in [Cmds -> CmdStates] /\ cmd'[<<"plan", m>>] # "none"
      /\ \A d \in Cmds : \/ cmd'[d] = cmd[d]
                         \/ d = <<"plan", m>> /\ cmd[d] = "none" /\ cmd'[d] = "pending"
    BY <1>4, DerivedFacts DEF DerivePlan, IInv
<1>6. TypeOK'
    BY <1>2, <1>3, <1>5 DEF IInv, TypeOK
<1>7. TurnHeld'
    BY <1>1, <1>2, <1>3, <1>5 DEF IInv, TurnHeld
<1>8. PlanHeld' /\ ApproveHeld' /\ ApplyHeld'
    BY <1>3 DEF PlanHeld, ApproveHeld, ApplyHeld, Updating, Drawing
<1>9. JobAtWork' /\ StartCloses' /\ NothingLost'
    <2>1. job'.pc \in PcsOf[job.cmd[1]]
        BY <1>1, <1>3 DEF PcsOf
    <2> QED
        BY <1>1, <1>2, <1>3, <1>5, <2>1, SubmitFrame
<1>10. OneRequestAtATime'
    <2>1. \A b \in Batches : cmd'[<<"preview", b>>] = cmd[<<"preview", b>>]
        BY <1>5, BatchCommands DEF Cmds
    <2> QED
        BY <1>2, <2>1, RequestFrame
<1> QED
    BY <1>2, <1>6, <1>7, <1>8, <1>9, <1>10, PlanFrame, IntegrationFrame DEF IInv

-----------------------------------------------------------------------------
(* The update of the session. *)

(* Where the job goes on, and what the session is there.                   *)
LEMMA AfterFacts ==
    ASSUME NEW kind \in {"plan", "approve", "preview", "apply", "resolve"}, NEW next
    PROVE  /\ After(kind, next) \in {"plan_begin", "authority", "apply_build", "to_completed",
                                     "fail", "ok"}
           /\ After(kind, next) = "plan_begin" => kind = "plan" /\ next = "planning"
           /\ After(kind, next) = "authority" => kind = "plan" /\ next = "validating"
           /\ After(kind, next) = "apply_build" => kind = "apply" /\ next = "integrating"
           /\ After(kind, next) = "to_completed" => kind = "apply" /\ next = "verifying"
<1>1. CASE kind = "plan"
    BY <1>1 DEF After
<1>2. CASE kind = "apply"
    BY <1>2 DEF After
<1>3. CASE kind \notin {"plan", "apply"}
    BY <1>3 DEF After
<1> QED
    BY <1>1, <1>2, <1>3

(* A fresh update takes the session on, a stale one changes nothing.       *)
LEMMA TransitionSessionOK ==
    ASSUME IInv, TransitionSession
    PROVE  IInv'
<1> USE DEF jobFrame, turnVars, graphVars, taskVars, intVars
<1>1. /\ proc = "up" /\ job.pc = "cas" /\ TypeOK
      /\ UNCHANGED <<jobFrame, cmd, turnVars, graphVars, taskVars, intVars>>
    BY DEF TransitionSession, IInv
<1>2. job.cmd[1] \in {"plan", "approve", "preview", "apply", "resolve"}
    BY <1>1, JobKinds DEF IInv, JobAtWork, PcsOf
<1>3. job.cmd # <<"none">>
    BY <1>2, <1>1, JobKinds
<1>4. job.next \in SessionStates
    BY <1>1 DEF IInv, TypeOK, Jobs, PlanHeld, Updating
<1> DEFINE p == IF job.fresh THEN After(job.cmd[1], job.next) ELSE Otherwise(job.next)
<1>5. /\ p \in {"plan_begin", "authority", "apply_build", "to_completed", "fail", "ok",
                "plan_finish"}
      /\ p = "plan_begin" => job.cmd[1] = "plan" /\ job.next = "planning" /\ job.fresh
      /\ p = "authority" => job.cmd[1] = "plan" /\ job.next = "validating" /\ job.fresh
      /\ p = "apply_build" => job.cmd[1] = "apply" /\ job.next = "integrating" /\ job.fresh
      /\ p = "to_completed" => job.cmd[1] = "apply" /\ job.next = "verifying" /\ job.fresh
      /\ p = "plan_finish" => job.next = "validating" /\ ~ job.fresh
    <2>1. CASE job.fresh
        BY <2>1, <1>2, AfterFacts
    <2>2. CASE ~ job.fresh
        BY <2>2 DEF Otherwise
    <2> QED
        BY <2>1, <2>2
<1>6. job' = [job EXCEPT !.pc = p, !.next = "none", !.fresh = FALSE]
    BY DEF TransitionSession
<1>7. session' = IF job.fresh THEN job.next ELSE session
    BY DEF TransitionSession
<1> HIDE DEF p
<1>8. p \in JobPcs
    BY <1>5 DEF JobPcs
<1>9. job' \in Jobs /\ job'.cmd = job.cmd /\ job'.pc = p /\ job'.verdict = job.verdict
    BY <1>1, <1>6, <1>8 DEF TypeOK, Jobs
<1>10. TypeOK'
    BY <1>1, <1>4, <1>7, <1>9 DEF TypeOK
<1>11. JobAtWork' /\ StartCloses' /\ NothingLost'
    <2>1. p = "plan_finish" => job.cmd[1] = "plan"
        BY <1>1, <1>5 DEF IInv, PlanHeld, Updating
    <2>2. p \in PcsOf[job.cmd[1]]
        BY <1>2, <1>5, <2>1 DEF PcsOf, Ends
    <2> QED
        BY <1>1, <1>3, <1>9, <2>2, QueueFrame
<1>12. TurnHeld' /\ ApproveHeld'
    BY <1>2, <1>5, <1>9 DEF TurnHeld, ApproveHeld
<1>13. PlanHeld'
    <2>1. p \in {"authority", "plan_finish"} =>
            session \in {"drafting", "planning", "validating"} /\ job.verdict # "none"
        BY <1>1, <1>5 DEF IInv, PlanHeld, Updating
    <2>2. p \in Drawing => session' \in {"drafting", "planning", "validating"}
        BY <1>5, <1>7, <2>1 DEF Drawing
    <2> QED
        BY <1>5, <1>9, <2>1, <2>2 DEF PlanHeld, Updating, Drawing
<1>14. ApplyHeld'
    BY <1>1, <1>5, <1>9 DEF IInv, ApplyHeld, Updating
<1>15. PlanCoherent'
    <2>1. OneLiveGraph'
        BY <1>1 DEF IInv, PlanCoherent, OneLiveGraph
    <2>2. AwaitingShowsProposal'
        <3>1. CASE ~ job.fresh
            BY <1>1, <1>7, <3>1 DEF IInv, PlanCoherent, AwaitingShowsProposal
        <3>2. CASE job.fresh /\ job.next = "awaiting_approval"
            <4>1. job.cmd[1] = "plan" /\ rev[job.cmd[2]] = "awaiting"
                BY <1>1, <3>2 DEF IInv, PlanHeld, Updating
            <4>2. job.cmd[2] \in Messages
                BY <1>1, <4>1, JobKinds
            <4>3. head = job.cmd[2]
                BY <4>1, <4>2 DEF IInv, PlanCoherent, OneLiveGraph
            <4>4. head # NoMessage
                BY <4>2, <4>3, SessionConstants
            <4> QED
                BY <1>1, <4>1, <4>3, <4>4 DEF AwaitingShowsProposal
        <3>3. CASE job.fresh /\ job.next # "awaiting_approval"
            BY <1>7, <3>3 DEF AwaitingShowsProposal
        <3> QED
            BY <3>1, <3>2, <3>3
    <2> QED
        BY <2>1, <2>2 DEF PlanCoherent
<1>16. IntegrationHonest'
    <2>1. AppliedOnce'
        BY <1>1 DEF IInv, IntegrationHonest, AppliedOnce
    <2>2. CompletedByApplication'
        <3>1. CASE ~ job.fresh
            BY <1>1, <1>7, <3>1 DEF IInv, IntegrationHonest, CompletedByApplication
        <3>2. CASE job.fresh /\ job.next \in {"verifying", "completed"}
            <4>1. job.cmd[1] = "apply" /\ batch[job.cmd[2]].st = "applied"
                BY <1>1, <3>2 DEF IInv, ApplyHeld, Updating
            <4>2. job.cmd[2] \in Batches
                BY <1>1, <4>1, JobKinds
            <4> QED
                BY <1>1, <4>1, <4>2 DEF CompletedByApplication
        <3>3. CASE job.fresh /\ job.next \notin {"verifying", "completed"}
            BY <1>7, <3>3 DEF CompletedByApplication
        <3> QED
            BY <3>1, <3>2, <3>3
    <2> QED
        BY <2>1, <2>2 DEF IntegrationHonest
<1> QED
    BY <1>1, <1>10, <1>11, <1>12, <1>13, <1>14, <1>15, <1>16, RequestFrame DEF IInv

-----------------------------------------------------------------------------
(* Graphs. *)

(* At most the head is superseded.                                         *)
LEMMA SupersededFacts ==
    ASSUME TypeOK, NEW from
    PROVE  /\ Superseded(rev, from)
                \in [Messages -> {"none", "planning", "awaiting", "invalid", "approved", "superseded"}]
           /\ \A n \in Messages : \/ Superseded(rev, from)[n] = rev[n] /\ (n = head => rev[n] \notin from)
                                  \/ n = head /\ Superseded(rev, from)[n] = "superseded"
BY SessionConstants DEF TypeOK, Superseded

(* The new revision takes the place of the head.                           *)
LEMMA BeginGraphAttemptOK ==
    ASSUME IInv, NEW m \in Messages, BeginGraphAttempt(m)
    PROVE  IInv'
<1> USE DEF jobFrame, turnVars, taskVars, intVars
<1>1. /\ proc = "up" /\ job.cmd # <<"none">> /\ job.cmd[1] = "plan" /\ job.pc = "plan_begin"
      /\ job.cmd[2] = m /\ TypeOK
    BY AtFacts DEF BeginGraphAttempt, IInv
<1>2. UNCHANGED <<jobFrame, cmd, session, turnVars, taskVars, intVars>>
    BY DEF BeginGraphAttempt
<1>3. /\ job' \in Jobs /\ job'.cmd = job.cmd /\ job'.pc = "propose" /\ job'.verdict = "invalid"
    BY <1>1 DEF BeginGraphAttempt, TypeOK, Jobs, JobPcs
<1>4. session \in {"drafting", "planning", "validating"}
    BY <1>1 DEF IInv, PlanHeld, Drawing
<1>5. /\ head' \in Messages \cup {NoMessage}
      /\ rev' \in [Messages -> {"none", "planning", "awaiting", "invalid", "approved", "superseded"}]
      /\ OneLiveGraph'
    <2>1. CASE rev[m] # "none"
        BY <2>1 DEF BeginGraphAttempt, IInv, TypeOK, PlanCoherent, OneLiveGraph
    <2>2. CASE rev[m] = "none"
        <3> DEFINE R == Superseded(rev, {"planning", "awaiting", "approved"})
        <3>1. /\ R \in [Messages -> {"none", "planning", "awaiting", "invalid", "approved", "superseded"}]
              /\ \A n \in Messages :
                    \/ R[n] = rev[n] /\ (n = head => rev[n] \notin {"planning", "awaiting", "approved"})
                    \/ n = head /\ R[n] = "superseded"
            BY <1>1, SupersededFacts
        <3>2. rev' = [R EXCEPT ![m] = "planning"] /\ head' = m
            BY <2>2 DEF BeginGraphAttempt
        <3> HIDE DEF R
        <3>3. rev' \in [Messages -> {"none", "planning", "awaiting", "invalid", "approved", "superseded"}]
            BY <3>1, <3>2
        <3>4. \A n \in Messages : n # m => R[n] \notin {"planning", "awaiting", "approved"}
            BY <3>1 DEF IInv, PlanCoherent, OneLiveGraph
        <3>5. OneLiveGraph'
            BY <3>1, <3>2, <3>4 DEF OneLiveGraph
        <3> QED
            BY <3>2, <3>3, <3>5
    <2> QED
        BY <2>1, <2>2
<1>6. TypeOK'
    BY <1>1, <1>2, <1>3, <1>5 DEF TypeOK
<1>7. PlanHeld' /\ PlanCoherent'
    BY <1>2, <1>3, <1>4, <1>5 DEF PlanHeld, Updating, Drawing, PlanCoherent, AwaitingShowsProposal
<1>8. TurnHeld' /\ ApproveHeld' /\ ApplyHeld'
    BY <1>1, <1>3 DEF TurnHeld, ApproveHeld, ApplyHeld, Updating
<1>9. JobAtWork' /\ StartCloses' /\ NothingLost'
    <2>1. job'.pc \in PcsOf[job.cmd[1]]
        BY <1>1, <1>3 DEF PcsOf
    <2> QED
        BY <1>1, <1>2, <1>3, <2>1, QueueFrame
<1> QED
    BY <1>2, <1>6, <1>7, <1>8, <1>9, IntegrationFrame, RequestFrame DEF IInv

(* A revision is finished only while it is being planned, so it is the     *)
(* head.                                                                   *)
LEMMA FinishGraphAttemptOK ==
    ASSUME IInv, NEW m \in Messages, FinishGraphAttempt(m)
    PROVE  IInv'
<1> USE DEF jobFrame, turnVars, taskVars, intVars
<1>1. /\ proc = "up" /\ job.cmd # <<"none">> /\ job.cmd[1] = "plan" /\ job.pc = "plan_finish"
      /\ job.cmd[2] = m /\ TypeOK
    BY AtFacts DEF FinishGraphAttempt, IInv
<1>2. UNCHANGED <<jobFrame, cmd, session, turnVars, head, taskVars, intVars>>
    BY DEF FinishGraphAttempt
<1>3. /\ session \in {"drafting", "planning", "validating"}
      /\ job.verdict \in {"invalid", "awaiting"}
    BY <1>1 DEF IInv, PlanHeld, Drawing, TypeOK, Jobs
<1>4. /\ job' \in Jobs /\ job'.cmd = job.cmd /\ job'.verdict = job.verdict
      /\ \/ /\ job'.pc = "from_planning" /\ rev[m] = "planning"
            /\ rev' = [rev EXCEPT ![m] = job.verdict]
         \/ job'.pc = "fail" /\ rev' = rev
    <2>1. "from_planning" \in JobPcs /\ "fail" \in JobPcs
        BY DEF JobPcs
    <2> QED
        BY <1>1, <2>1, GotoFacts DEF FinishGraphAttempt
<1>5. /\ rev' \in [Messages -> {"none", "planning", "awaiting", "invalid", "approved", "superseded"}]
      /\ job'.pc = "from_planning" /\ job.verdict = "awaiting" => rev'[m] = "awaiting"
    BY <1>1, <1>3, <1>4 DEF TypeOK
<1>6. TypeOK'
    BY <1>1, <1>2, <1>4, <1>5 DEF TypeOK
<1>7. PlanHeld'
    BY <1>1, <1>2, <1>3, <1>4, <1>5 DEF PlanHeld, Updating, Drawing
<1>8. PlanCoherent'
    <2>1. OneLiveGraph'
        BY <1>1, <1>2, <1>4 DEF IInv, TypeOK, PlanCoherent, OneLiveGraph
    <2> QED
        BY <1>2, <1>3, <2>1 DEF PlanCoherent, AwaitingShowsProposal
<1>9. TurnHeld' /\ ApproveHeld' /\ ApplyHeld'
    BY <1>1, <1>4 DEF TurnHeld, ApproveHeld, ApplyHeld, Updating
<1>10. JobAtWork' /\ StartCloses' /\ NothingLost'
    <2>1. job'.pc \in PcsOf[job.cmd[1]]
        BY <1>1, <1>4 DEF PcsOf, Ends
    <2> QED
        BY <1>1, <1>2, <1>4, <2>1, QueueFrame
<1> QED
    BY <1>2, <1>6, <1>7, <1>8, <1>9, <1>10, IntegrationFrame, RequestFrame DEF IInv

(* The approval is of the head, which stays the one graph in force.        *)
LEMMA MaterializeOK ==
    ASSUME IInv, NEW m \in Messages, Materialize(m)
    PROVE  IInv'
<1> USE DEF jobFrame, turnVars, intVars
<1>1. /\ proc = "up" /\ job.cmd # <<"none">> /\ job.cmd[1] = "approve" /\ job.pc = "materialize"
      /\ job.cmd[2] = m /\ TypeOK
    BY AtFacts DEF Materialize, IInv
<1>2. UNCHANGED <<jobFrame, cmd, session, turnVars, head, res, overlap, intVars>>
    BY DEF Materialize
<1>3. job' \in Jobs /\ job'.cmd = job.cmd /\ job'.pc \in {"approved_session", "fail"}
    <2>1. "approved_session" \in JobPcs /\ "fail" \in JobPcs
        BY DEF JobPcs
    <2>2. Goto("approved_session") \/ Goto("fail")
        BY DEF Materialize
    <2> QED
        BY <1>1, <2>1, <2>2, GotoFacts
<1>4. \/ UNCHANGED <<rev, task>>
      \/ /\ head = m /\ rev[m] = "awaiting"
         /\ rev' = [rev EXCEPT ![m] = "approved"] /\ task' = [task EXCEPT ![m] = "queued"]
    BY DEF Materialize, CreateTasks
<1>5. TypeOK'
    <2>1. rev' \in [Messages -> {"none", "planning", "awaiting", "invalid", "approved", "superseded"}]
        BY <1>1, <1>4 DEF TypeOK
    <2>2. task' \in [Messages -> {"none", "queued", "running", "completed"}]
        BY <1>1, <1>4 DEF TypeOK
    <2> QED
        BY <1>1, <1>2, <1>3, <2>1, <2>2 DEF TypeOK
<1>6. PlanCoherent'
    BY <1>1, <1>2, <1>4 DEF IInv, TypeOK, PlanCoherent, OneLiveGraph, AwaitingShowsProposal
<1>7. TurnHeld' /\ PlanHeld' /\ ApproveHeld' /\ ApplyHeld'
    BY <1>1, <1>3 DEF TurnHeld, PlanHeld, Drawing, ApproveHeld, ApplyHeld, Updating
<1>8. JobAtWork' /\ StartCloses' /\ NothingLost'
    <2>1. job'.pc \in PcsOf[job.cmd[1]]
        BY <1>1, <1>3 DEF PcsOf, Ends
    <2> QED
        BY <1>1, <1>2, <1>3, <2>1, QueueFrame
<1> QED
    BY <1>2, <1>5, <1>6, <1>7, <1>8, IntegrationFrame, RequestFrame DEF IInv

-----------------------------------------------------------------------------
(* Integration. *)

(* Every set of numbers has a least element.                               *)
LEMMA LeastNatural ==
    ASSUME NEW T \in SUBSET Nat, T # {}
    PROVE  \E t \in T : \A u \in T : t <= u
<1>1. IsWellFoundedOn(OpToRel(<, Nat), Nat)
    BY NatLessThanWellFounded
<1>2. PICK t \in T : \A u \in T : ~ (<<u, t>> \in OpToRel(<, Nat))
    BY <1>1, WFMin
<1>3. \A u \in T : ~ (u < t)
    BY <1>2 DEF OpToRel
<1> QED
    BY <1>3

(* Batches are numbered from 1.                                            *)
LEMMA BatchesAreNumbers == \E n \in Nat : Batches = 1 .. n
BY SessionConstants, FS_CardinalityType

(* A set of batches has a greatest element.                                *)
LEMMA GreatestBatch ==
    ASSUME NEW S \in SUBSET Batches, S # {}
    PROVE  Max(S) \in S /\ \A b \in S : b <= Max(S)
<1>1. PICK n \in Nat : Batches = 1 .. n
    BY BatchesAreNumbers
<1>2. \A b \in S : b \in Nat /\ n - b \in Nat
    BY <1>1
<1> DEFINE T == {n - b : b \in S}
<1>3. T \in SUBSET Nat /\ T # {}
    BY <1>2
<1>4. PICK t \in T : \A u \in T : t <= u
    <2> HIDE DEF T
    <2> QED
        BY <1>3, LeastNatural
<1>5. PICK g \in S : t = n - g
    OBVIOUS
<1>6. ASSUME NEW b \in S
      PROVE  g >= b
    <2>1. n - b \in T
        OBVIOUS
    <2>2. n - g <= n - b
        BY <1>4, <1>5, <2>1
    <2> QED
        BY <1>2, <2>2
<1>7. Max(S) \in S /\ \A b \in S : Max(S) >= b
    BY <1>6 DEF Max
<1> QED
    BY <1>2, <1>7

(* A batch whose preview is at work is the current one, or is new.         *)
LEMMA PreviewIsLatest ==
    ASSUME IInv, NEW b \in Batches, cmd[<<"preview", b>>] = "claimed", CurrentBatch # b
    PROVE  batch[b].st = "none"
<1> SUFFICES ASSUME batch[b].st # "none" PROVE FALSE
    OBVIOUS
<1>1. b \in Recorded
    BY DEF Recorded
<1>2. Recorded \subseteq Batches /\ Batches \subseteq Nat
    BY BatchesAreNumbers DEF Recorded
<1>3. \A a \in Recorded : ~ (b < a)
    BY <1>2 DEF IInv, OneRequestAtATime, Recorded, Settled
<1>4. Max(Recorded) \in Recorded /\ b <= Max(Recorded)
    BY <1>1, <1>2, GreatestBatch
<1>5. PICK g \in Recorded : g = Max(Recorded) /\ b <= g
    BY <1>4
<1>6. g \in Nat /\ b \in Nat /\ ~ (b < g)
    BY <1>2, <1>3
<1>7. g = b
    BY <1>5, <1>6
<1> QED
    BY <1>1, <1>5, <1>7 DEF CurrentBatch

(* The new batch is well formed, and neither approved nor applied.         *)
LEMMA NewBatchFacts ==
    ASSUME TypeOK, Buildable, NEW clean \in BOOLEAN
    PROVE  /\ NewBatch(clean) \in [st : BatchStates, rev : Messages,
                                   by : Batches \cup {0}, resolvable : BOOLEAN]
           /\ NewBatch(clean).st \in {"preview", "blocked"}
<1>1. Candidate \in Batches \cup {0}
    <2>1. Resolutions \subseteq Batches
        BY DEF Resolutions, Recorded
    <2> QED
        BY <2>1, GreatestBatch DEF Candidate
<1>2. head \in Messages
    BY DEF TypeOK, Buildable
<1>3. (EvidenceOk(clean) /\ ~ OverlapOk) \in BOOLEAN
    OBVIOUS
<1> QED
    BY <1>1, <1>2, <1>3 DEF NewBatch, BatchStates

(* A new batch takes the place of those that were only shown.              *)
LEMMA PreviewOK ==
    ASSUME IInv, NEW b \in Batches, Preview(b)
    PROVE  /\ IInv'
           /\ \A x \in Batches : batch[x].st = "needs_attention" => batch'[x] = batch[x]
<1> USE DEF jobFrame, turnVars, graphVars, taskVars
<1>1. /\ proc = "up" /\ job.cmd # <<"none">> /\ job.cmd[1] = "preview" /\ job.pc = "preview"
      /\ job.cmd[2] = b /\ cmd[job.cmd] = "claimed" /\ TypeOK
    BY AtFacts DEF Preview, IInv
<1>2. job.cmd = <<"preview", b>>
    BY <1>1, JobKinds
<1>3. UNCHANGED <<jobFrame, cmd, session, turnVars, graphVars, taskVars, applied>>
    BY DEF Preview
<1>4. job' \in Jobs /\ job'.cmd = job.cmd /\ job'.pc \in {"ok", "fail", "to_attention"}
    <2>1. "ok" \in JobPcs /\ "fail" \in JobPcs /\ "to_attention" \in JobPcs
        BY DEF JobPcs
    <2>2. \E p \in {"ok", "fail", "to_attention"} : Goto(p)
        BY DEF Preview
    <2> QED
        BY <1>1, <2>1, <2>2, GotoFacts
<1>5. TurnHeld' /\ PlanHeld' /\ ApproveHeld' /\ ApplyHeld'
    BY <1>1, <1>4 DEF TurnHeld, PlanHeld, Drawing, ApproveHeld, ApplyHeld, Updating
<1>6. JobAtWork' /\ StartCloses' /\ NothingLost'
    <2>1. job'.pc \in PcsOf[job.cmd[1]]
        BY <1>1, <1>4 DEF PcsOf, Ends
    <2> QED
        BY <1>1, <1>3, <1>4, <2>1, QueueFrame
<1>7. PlanCoherent'
    BY <1>3, PlanFrame
<1>8. CASE UNCHANGED batch
    <2>1. TypeOK'
        BY <1>1, <1>3, <1>4, <1>8 DEF TypeOK
    <2> QED
        BY <1>3, <1>5, <1>6, <1>7, <1>8, <2>1, IntegrationFrame, RequestFrame DEF IInv
<1>9. CASE ~ UNCHANGED batch
    <2>1. CurrentBatch # b /\ Buildable
        BY <1>9 DEF Preview
    <2>2. PICK clean \in BOOLEAN :
            batch' = [x \in Batches |->
                         IF x = b THEN NewBatch(clean)
                         ELSE IF batch[x].st \in {"preview", "blocked"}
                         THEN [batch[x] EXCEPT !.st = "superseded"]
                         ELSE batch[x]]
        BY <1>9 DEF Preview
    <2>3. /\ NewBatch(clean) \in [st : BatchStates, rev : Messages,
                                  by : Batches \cup {0}, resolvable : BOOLEAN]
          /\ NewBatch(clean).st \in {"preview", "blocked"}
        BY <1>1, <2>1, NewBatchFacts
    <2>4. batch[b].st = "none"
        BY <1>1, <1>2, <2>1, PreviewIsLatest
    <2>5. ASSUME NEW x \in Batches
          PROVE  /\ batch'[x] \in {NoBatch} \cup [st : BatchStates, rev : Messages,
                                                 by : Batches \cup {0}, resolvable : BOOLEAN]
                 /\ batch'[x].st = "none" \/ batch[x].st # "none" \/ x = b
                 /\ batch'[x].st = "applied" => batch[x].st = "applied"
                 /\ batch[x].st \in {"applied", "needs_attention"} => batch'[x] = batch[x]
        <3>1. CASE x = b
            BY <2>2, <2>3, <2>4, <3>1
        <3>2. CASE x # b /\ batch[x].st \in {"preview", "blocked"}
            <4>1. batch'[x] = [batch[x] EXCEPT !.st = "superseded"]
                BY <2>2, <3>2
            <4>2. batch[x] \in [st : BatchStates, rev : Messages,
                                by : Batches \cup {0}, resolvable : BOOLEAN]
                BY <1>1, <3>2 DEF TypeOK, NoBatch
            <4> QED
                BY <3>2, <4>1, <4>2 DEF BatchStates
        <3>3. CASE x # b /\ batch[x].st \notin {"preview", "blocked"}
            BY <1>1, <2>2, <3>3 DEF TypeOK
        <3> QED
            BY <3>1, <3>2, <3>3
    <2>6. batch' \in [Batches -> {NoBatch} \cup [st : BatchStates, rev : Messages,
                                                by : Batches \cup {0}, resolvable : BOOLEAN]]
        BY <2>2, <2>5
    <2>7. TypeOK'
        BY <1>1, <1>3, <1>4, <2>6 DEF TypeOK
    <2>8. OneRequestAtATime'
        BY <1>1, <1>2, <1>3, <2>5 DEF IInv, OneRequestAtATime
    <2>9. IntegrationHonest'
        BY <1>3, <2>5 DEF IInv, IntegrationHonest, CompletedByApplication, AppliedOnce
    <2> QED
        BY <1>5, <1>6, <1>7, <2>5, <2>7, <2>8, <2>9 DEF IInv
<1> QED
    BY <1>8, <1>9

(* Only the status of one batch changes.                                   *)
LEMMA StatusFacts ==
    ASSUME TypeOK, NEW b \in Batches, batch[b].st # "none", NEW s \in BatchStates,
           batch' = [batch EXCEPT ![b].st = s]
    PROVE  /\ batch' \in [Batches -> {NoBatch} \cup [st : BatchStates, rev : Messages,
                                                    by : Batches \cup {0}, resolvable : BOOLEAN]]
           /\ batch'[b].st = s
           /\ \A x \in Batches : x # b => batch'[x] = batch[x]
<1>1. batch[b] \in [st : BatchStates, rev : Messages, by : Batches \cup {0}, resolvable : BOOLEAN]
    BY DEF TypeOK, NoBatch
<1>2. batch' = [batch EXCEPT ![b] = [batch[b] EXCEPT !.st = s]]
    OBVIOUS
<1>3. [batch[b] EXCEPT !.st = s]
        \in [st : BatchStates, rev : Messages, by : Batches \cup {0}, resolvable : BOOLEAN]
      /\ [batch[b] EXCEPT !.st = s].st = s
    BY <1>1
<1> QED
    BY <1>2, <1>3 DEF TypeOK

(* What an application does to its batch, and where it goes on: a preview  *)
(* is approved, an approved batch is being applied, and that one is        *)
(* applied, as it was in the repository, or needs attention.               *)
LEMMA ApplicationOK ==
    ASSUME IInv, NEW b \in Batches, job.cmd[1] = "apply", job.cmd[2] = b, proc = "up",
           UNCHANGED <<jobFrame, cmd, session, turnVars, graphVars, taskVars, applied>>,
           NEW s \in BatchStates, NEW p \in JobPcs,
           batch' = [batch EXCEPT ![b].st = s], Goto(p),
           \/ batch[b].st = "preview" /\ s = "approved" /\ p = "to_integrating"
           \/ batch[b].st = "approved" /\ s = "applying" /\ p = "applying"
           \/ batch[b].st = "applying" /\ s = "applied" /\ p = "to_verifying" /\ applied[b] = 1
           \/ batch[b].st = "applying" /\ s = "needs_attention" /\ p = "to_attention"
    PROVE  /\ IInv'
           /\ \A x \in Batches : batch[x].st = "needs_attention" => batch'[x] = batch[x]
<1> USE DEF jobFrame, turnVars, graphVars, taskVars
<1>1. TypeOK /\ job.cmd # <<"none">>
    BY JobKinds DEF IInv
<1>2. job' \in Jobs /\ job'.cmd = job.cmd /\ job'.pc = p
    BY <1>1, GotoFacts
<1>3. /\ batch' \in [Batches -> {NoBatch} \cup [st : BatchStates, rev : Messages,
                                               by : Batches \cup {0}, resolvable : BOOLEAN]]
      /\ batch'[b].st = s
      /\ \A x \in Batches : x # b => batch'[x] = batch[x]
    BY <1>1, StatusFacts
<1>4. TypeOK'
    BY <1>1, <1>2, <1>3 DEF TypeOK
<1>5. ApplyHeld'
    BY <1>2, <1>3 DEF ApplyHeld, Updating
<1>6. TurnHeld' /\ PlanHeld' /\ ApproveHeld'
    BY <1>2 DEF TurnHeld, PlanHeld, Drawing, ApproveHeld, Updating
<1>7. JobAtWork' /\ StartCloses' /\ NothingLost'
    <2>1. job'.pc \in PcsOf[job.cmd[1]]
        BY <1>2 DEF PcsOf
    <2> QED
        BY <1>1, <1>2, <2>1, QueueFrame
<1>8. OneRequestAtATime'
    BY <1>3, RequestFrame
<1>9. IntegrationHonest'
    BY <1>3 DEF IInv, IntegrationHonest, CompletedByApplication, AppliedOnce
<1> QED
    BY <1>3, <1>4, <1>5, <1>6, <1>7, <1>8, <1>9, PlanFrame DEF IInv

(* A step of an application that leaves its batch alone.                   *)
LEMMA ApplicationStopsOK ==
    ASSUME IInv, NEW b \in Batches, job.cmd[1] = "apply", job.cmd[2] = b, proc = "up",
           UNCHANGED <<jobFrame, cmd, session, turnVars, graphVars, taskVars, batch>>,
           NEW p \in {"ok", "fail", "apply_failed", "apply_finish"}, Goto(p),
           \/ UNCHANGED applied /\ p # "apply_finish"
           \/ p = "apply_finish" /\ applied[b] = 0 /\ applied' = [applied EXCEPT ![b] = @ + 1],
           p \in {"apply_failed", "apply_finish"} => batch[b].st = "applying"
    PROVE  IInv'
<1> USE DEF jobFrame, turnVars, graphVars, taskVars
<1>1. TypeOK /\ job.cmd # <<"none">> /\ p \in JobPcs
    BY JobKinds DEF IInv, JobPcs
<1>2. job' \in Jobs /\ job'.cmd = job.cmd /\ job'.pc = p
    BY <1>1, GotoFacts
<1>3. /\ applied' \in [Batches -> {0, 1}]
      /\ p = "apply_finish" => applied'[b] = 1
      /\ \A x \in Batches : applied[x] = 1 => applied'[x] = 1
    <2>1. applied \in [Batches -> {0, 1}]
        BY <1>1 DEF TypeOK
    <2>2. CASE UNCHANGED applied /\ p # "apply_finish"
        BY <2>1, <2>2
    <2>3. CASE applied[b] = 0 /\ applied' = [applied EXCEPT ![b] = @ + 1]
        <3>1. applied'[b] = 1 /\ \A x \in Batches : x # b => applied'[x] = applied[x]
            BY <2>1, <2>3
        <3>2. applied' = [x \in Batches |-> applied'[x]]
            BY <2>1, <2>3
        <3> QED
            BY <2>1, <3>1, <3>2
    <2> QED
        BY <2>2, <2>3
<1>4. TypeOK'
    BY <1>1, <1>2, <1>3 DEF TypeOK
<1>5. ApplyHeld'
    BY <1>2, <1>3 DEF ApplyHeld, Updating
<1>6. TurnHeld' /\ PlanHeld' /\ ApproveHeld'
    BY <1>2 DEF TurnHeld, PlanHeld, Drawing, ApproveHeld, Updating
<1>7. JobAtWork' /\ StartCloses' /\ NothingLost'
    <2>1. job'.pc \in PcsOf[job.cmd[1]]
        BY <1>2 DEF PcsOf, Ends
    <2> QED
        BY <1>1, <1>2, <2>1, QueueFrame
<1>8. IntegrationHonest'
    BY <1>3 DEF IInv, IntegrationHonest, CompletedByApplication, AppliedOnce
<1> QED
    BY <1>4, <1>5, <1>6, <1>7, <1>8, PlanFrame, RequestFrame DEF IInv

(* approve_integration: approval, start, application and its record.       *)
LEMMA ApplyOK ==
    ASSUME IInv, NEW b \in Batches,
           ApplyCheck(b) \/ StartApplication(b) \/ ApplySources(b) \/ FinishApplication(b)
    PROVE  /\ IInv'
           /\ \A x \in Batches : batch[x].st = "needs_attention" => batch'[x] = batch[x]
<1> USE DEF intVars
<1>1. {"ok", "fail", "to_integrating", "applying", "to_verifying", "to_attention"} \subseteq JobPcs
      /\ {"approved", "applying", "applied", "needs_attention"} \subseteq BatchStates
    BY DEF JobPcs, BatchStates
<1>2. proc = "up" /\ job.cmd[1] = "apply" /\ job.cmd[2] = b
    BY DEF ApplyCheck, StartApplication, ApplySources, FinishApplication, At
<1>3. CASE ApplyCheck(b)
    <2>1. UNCHANGED <<jobFrame, cmd, session, turnVars, graphVars, taskVars, applied>>
        BY <1>3 DEF ApplyCheck
    <2>2. CASE CurrentBatch = b /\ batch[b].st = "preview"
        <3>1. batch' = [batch EXCEPT ![b].st = "approved"] /\ Goto("to_integrating")
            BY <1>3, <2>2 DEF ApplyCheck
        <3> QED
            BY <1>1, <1>2, <2>1, <2>2, <3>1, ApplicationOK
    <2>3. CASE ~ (CurrentBatch = b /\ batch[b].st = "preview")
        <3>1. UNCHANGED batch /\ \E p \in {"ok", "fail"} : Goto(p)
            BY <1>3, <2>3 DEF ApplyCheck
        <3> QED
            BY <1>2, <2>1, <3>1, ApplicationStopsOK
    <2> QED
        BY <2>2, <2>3
<1>4. CASE StartApplication(b)
    <2>1. UNCHANGED <<jobFrame, cmd, session, turnVars, graphVars, taskVars, applied>>
        BY <1>4 DEF StartApplication
    <2>2. batch[b].st = "approved"
        BY <1>2, <1>4 DEF StartApplication, At, IInv, ApplyHeld
    <2>3. CASE Goto("fail") /\ UNCHANGED batch
        BY <1>2, <2>1, <2>3, ApplicationStopsOK
    <2>4. CASE batch' = [batch EXCEPT ![b].st = "applying"] /\ Goto("applying")
        BY <1>1, <1>2, <2>1, <2>2, <2>4, ApplicationOK
    <2> QED
        BY <1>4, <2>3, <2>4 DEF StartApplication
<1>5. CASE ApplySources(b)
    <2>1. UNCHANGED <<jobFrame, cmd, session, turnVars, graphVars, taskVars, batch>>
        BY <1>5 DEF ApplySources
    <2>2. batch[b].st = "applying"
        BY <1>2, <1>5 DEF ApplySources, At, IInv, ApplyHeld
    <2>3. \/ Goto("apply_failed") /\ UNCHANGED applied
          \/ applied[b] = 0 /\ applied' = [applied EXCEPT ![b] = @ + 1] /\ Goto("apply_finish")
        BY <1>5 DEF ApplySources, WorktreeFree
    <2> QED
        BY <1>2, <2>1, <2>2, <2>3, ApplicationStopsOK
<1>6. CASE FinishApplication(b)
    <2>1. UNCHANGED <<jobFrame, cmd, session, turnVars, graphVars, taskVars, applied>>
        BY <1>6 DEF FinishApplication
    <2>2. batch[b].st = "applying" /\ (job.pc = "apply_finish" => applied[b] = 1)
        BY <1>2, <1>6 DEF FinishApplication, IInv, ApplyHeld
    <2>3. \/ /\ job.pc = "apply_finish"
             /\ batch' = [batch EXCEPT ![b].st = "applied"] /\ Goto("to_verifying")
          \/ batch' = [batch EXCEPT ![b].st = "needs_attention"] /\ Goto("to_attention")
        BY <1>6 DEF FinishApplication
    <2> QED
        BY <1>1, <1>2, <2>1, <2>2, <2>3, ApplicationOK
<1> QED
    BY <1>3, <1>4, <1>5, <1>6

(* create_integration_resolution_task.                                     *)
LEMMA ResolveOK ==
    ASSUME IInv, NEW b \in Batches, Resolve(b)
    PROVE  IInv'
<1> USE DEF jobFrame, turnVars, graphVars, intVars
<1>1. /\ proc = "up" /\ job.cmd # <<"none">> /\ job.cmd[1] = "resolve" /\ job.pc = "resolve"
      /\ TypeOK
    BY AtFacts DEF Resolve, IInv
<1>2. UNCHANGED <<jobFrame, cmd, session, turnVars, graphVars, task, overlap, intVars>>
    BY DEF Resolve
<1>3. job' \in Jobs /\ job'.cmd = job.cmd /\ job'.pc \in {"to_running", "fail"}
    <2>1. "to_running" \in JobPcs /\ "fail" \in JobPcs
        BY DEF JobPcs
    <2>2. Goto("to_running") \/ Goto("fail")
        BY DEF Resolve
    <2> QED
        BY <1>1, <2>1, <2>2, GotoFacts
<1>4. res' \in [Batches -> {"none", "queued", "completed"}]
    BY <1>1 DEF Resolve, InsertResolutionTask, TypeOK
<1>5. TypeOK'
    BY <1>1, <1>2, <1>3, <1>4 DEF TypeOK
<1>6. TurnHeld' /\ PlanHeld' /\ ApproveHeld' /\ ApplyHeld'
    BY <1>1, <1>3 DEF TurnHeld, PlanHeld, Drawing, ApproveHeld, ApplyHeld, Updating
<1>7. JobAtWork' /\ StartCloses' /\ NothingLost'
    <2>1. job'.pc \in PcsOf[job.cmd[1]]
        BY <1>1, <1>3 DEF PcsOf, Ends
    <2> QED
        BY <1>1, <1>2, <1>3, <2>1, QueueFrame
<1> QED
    BY <1>2, <1>5, <1>6, <1>7, PlanFrame, IntegrationFrame, RequestFrame DEF IInv

-----------------------------------------------------------------------------
(* The job takes up a command and lays it down. *)

(* A job without a command, or at the start of one, holds no plan, no      *)
(* approval and no application.                                            *)
LEMMA NothingInHand ==
    ASSUME job'.pc \in {"idle", "turn_check", "plan_check", "approve_check", "preview",
                        "apply_check", "resolve"}
    PROVE  PlanHeld' /\ ApproveHeld' /\ ApplyHeld'
BY DEF PlanHeld, ApproveHeld, ApplyHeld, Updating, Drawing

(* The idle job is known by its parts.                                     *)
LEMMA IdleJob ==
    ASSUME NEW j \in Jobs, j.cmd = NoJob.cmd, j.pc = NoJob.pc, j.next = NoJob.next,
           j.fresh = FALSE, j.verdict = NoJob.verdict
    PROVE  j = NoJob
<1>1. NoJob \in Jobs /\ NoJob.fresh = FALSE
    BY DEF NoJob, Jobs, JobPcs
<1> QED
    BY <1>1 DEF Jobs

(* An idle job holds nothing.                                              *)
LEMMA IdleHolds ==
    ASSUME job' = NoJob
    PROVE  /\ TurnHeld' /\ PlanHeld' /\ ApproveHeld' /\ ApplyHeld'
           /\ job' \in Jobs /\ job'.cmd = <<"none">> /\ job'.pc \in PcsOf[job'.cmd[1]]
<1>1. job'.cmd = <<"none">> /\ job'.pc = "idle"
    BY DEF NoJob
<1>2. TurnHeld'
    BY <1>1 DEF TurnHeld
<1>3. job' \in Jobs /\ job'.pc \in PcsOf[job'.cmd[1]]
    BY <1>1 DEF NoJob, Jobs, JobPcs, PcsOf
<1> QED
    BY <1>1, <1>2, <1>3, NothingInHand

(* Commands move on; none appears and none comes back from its end.        *)
LEMMA RequestsMoveOn ==
    ASSUME IInv, UNCHANGED batch,
           \A b \in Batches : /\ cmd'[<<"preview", b>>] = "none" <=> cmd[<<"preview", b>>] = "none"
                              /\ cmd[<<"preview", b>>] \in Settled
                                    => cmd'[<<"preview", b>>] = cmd[<<"preview", b>>]
    PROVE  OneRequestAtATime'
BY DEF IInv, OneRequestAtATime

(* Where each kind of command starts.                                      *)
LEMMA EntryFacts ==
    ASSUME NEW c \in OrchestrationCmds
    PROVE  /\ c \in Cmds /\ c # <<"none">> /\ c[1] # "append"
           /\ Entry[c[1]] \in {"turn_check", "plan_check", "approve_check", "preview",
                               "apply_check", "resolve"}
           /\ Entry[c[1]] \in PcsOf[c[1]] /\ Entry[c[1]] \in JobPcs
           /\ c[1] = "turn" => Entry[c[1]] = "turn_check"
<1>1. c \in Cmds
    BY DEF Cmds
<1>2. c[1] \in {"turn", "plan", "approve", "preview", "apply", "resolve"}
    BY <1>1, KindOfCommand
<1>3. c # <<"none">>
    BY <1>2
<1> QED
    BY <1>1, <1>2, <1>3 DEF Entry, PcsOf, JobPcs

(* The oldest pending orchestration command is claimed for the job.        *)
LEMMA ClaimOrchestrationOK ==
    ASSUME IInv, ClaimOrchestration
    PROVE  IInv'
<1> USE DEF jobFrame, turnVars, graphVars, taskVars, intVars
<1>1. proc = "up" /\ job = NoJob /\ job.cmd = <<"none">> /\ TypeOK
      /\ UNCHANGED <<jobFrame, session, turnVars, graphVars, taskVars, intVars>>
    BY DEF ClaimOrchestration, NoJob, IInv
<1>2. PICK c \in OrchestrationCmds :
        /\ cmd[c] = "pending"
        /\ cmd' = [cmd EXCEPT ![c] = "claimed"]
        /\ job' = [NoJob EXCEPT !.cmd = c, !.pc = Entry[c[1]]]
    BY DEF ClaimOrchestration, FirstPending
<1>3. /\ c \in Cmds /\ c # <<"none">> /\ c[1] # "append"
      /\ Entry[c[1]] \in {"turn_check", "plan_check", "approve_check", "preview",
                          "apply_check", "resolve"}
      /\ Entry[c[1]] \in PcsOf[c[1]] /\ Entry[c[1]] \in JobPcs
      /\ c[1] = "turn" => Entry[c[1]] = "turn_check"
    BY EntryFacts
<1>4. job' \in Jobs /\ job'.cmd = c /\ job'.pc = Entry[c[1]]
    BY <1>2, <1>3 DEF NoJob, Jobs
<1>5. /\ cmd' \in [Cmds -> CmdStates] /\ cmd'[c] = "claimed"
      /\ \A d \in Cmds : d # c => cmd'[d] = cmd[d]
    BY <1>1, <1>2, <1>3 DEF TypeOK, CmdStates
<1>6. TypeOK'
    BY <1>1, <1>4, <1>5 DEF TypeOK
<1>7. PlanHeld' /\ ApproveHeld' /\ ApplyHeld'
    BY <1>3, <1>4, NothingInHand
<1>8. \A m \in Messages : attempt[m] # "running"
    BY <1>1 DEF IInv, NothingLost, NothingLeftOpen
<1>9. TurnHeld'
    <2>1. c[1] = "turn" => c[2] \in Messages
        BY <1>3, KindOfCommand
    <2> QED
        BY <1>1, <1>3, <1>4, <1>8, <2>1 DEF TurnHeld
<1>10. JobAtWork' /\ StartCloses'
    BY <1>1, <1>3, <1>4, <1>5 DEF JobAtWork, StartCloses, NoJob
<1>11. NothingLost'
    <2>1. FollowUpsQueued'
        <3>1. \A m \in Messages : <<"turn", m>> \in Cmds /\ <<"plan", m>> \in Cmds
            BY MessageCommands DEF Cmds
        <3> QED
            BY <1>1, <1>2, <1>5, <3>1 DEF IInv, NothingLost, FollowUpsQueued
    <2>2. NothingLeftOpen'
        <3>1. \A d \in ReplaySafe : d \in Cmds /\ d # <<"none">>
            BY KindOfCommand DEF ReplaySafe
        <3> QED
            BY <1>1, <1>4, <1>5, <1>8, <3>1 DEF IInv, NothingLost, NothingLeftOpen
    <2> QED
        BY <2>1, <2>2 DEF NothingLost
<1>12. OneRequestAtATime'
    <2>1. \A b \in Batches : <<"preview", b>> \in Cmds
        BY BatchCommands DEF Cmds
    <2> QED
        BY <1>1, <1>2, <1>5, <2>1, RequestsMoveOn DEF Settled
<1> QED
    BY <1>1, <1>6, <1>7, <1>9, <1>10, <1>11, <1>12, PlanFrame, IntegrationFrame DEF IInv

(* The command ends as the job says.                                       *)
LEMMA FinishOrchestrationOK ==
    ASSUME IInv, FinishOrchestration
    PROVE  IInv'
<1> USE DEF turnVars, graphVars, taskVars, intVars
<1>1. /\ proc = "up" /\ job.pc \in {"ok", "fail"} /\ job' = NoJob /\ TypeOK
      /\ UNCHANGED <<proc, append, posted, crashes, session, turnVars, graphVars, taskVars, intVars>>
    BY DEF FinishOrchestration, IInv
<1>2. job # NoJob /\ job.cmd \in Cmds /\ cmd[job.cmd] = "claimed"
    <2>1. job # NoJob
        BY <1>1 DEF NoJob
    <2> QED
        BY <1>1, <2>1, JobKinds DEF IInv, JobAtWork
<1> DEFINE out == IF job.pc = "ok" THEN "completed" ELSE "failed"
<1>3. cmd' = [cmd EXCEPT ![job.cmd] = out]
    BY DEF FinishOrchestration
<1>4. out \in {"completed", "failed"} /\ (out = "completed" => job.pc = "ok")
    OBVIOUS
<1> HIDE DEF out
<1>5. /\ cmd' \in [Cmds -> CmdStates] /\ cmd'[job.cmd] = out
      /\ \A d \in Cmds : d # job.cmd => cmd'[d] = cmd[d]
    BY <1>1, <1>2, <1>3, <1>4 DEF TypeOK, CmdStates
<1>6. /\ TurnHeld' /\ PlanHeld' /\ ApproveHeld' /\ ApplyHeld'
      /\ job' \in Jobs /\ job'.cmd = <<"none">> /\ job'.pc \in PcsOf[job'.cmd[1]]
    BY <1>1, IdleHolds
<1>7. TypeOK'
    BY <1>1, <1>5, <1>6 DEF TypeOK
<1>8. JobAtWork' /\ StartCloses'
    BY <1>1, <1>6 DEF JobAtWork, StartCloses
<1>9. \A m \in Messages : attempt[m] # "running"
    <2> SUFFICES ASSUME NEW m \in Messages, attempt[m] = "running"
                 PROVE  FALSE
        OBVIOUS
    <2>1. job.cmd = <<"turn", m>>
        BY <1>1 DEF IInv, NothingLost, NothingLeftOpen
    <2>2. job.cmd[1] = "turn" /\ job.cmd[2] = m
        BY <2>1
    <2> QED
        BY <1>1, <2>2 DEF IInv, TurnHeld
<1>10. FollowUpsQueued'
    <2> SUFFICES ASSUME NEW m \in Messages
                 PROVE  /\ m \in ToSet(posted) => cmd'[<<"turn", m>>] # "none"
                        /\ cmd'[<<"turn", m>>] = "completed" =>
                              (attempt[m] = "candidate" => cmd'[<<"plan", m>>] # "none")
        BY <1>1 DEF FollowUpsQueued
    <2>1. <<"turn", m>> \in Cmds /\ <<"plan", m>> \in Cmds
        BY MessageCommands DEF Cmds
    <2>2. cmd[<<"plan", m>>] # "none" => cmd'[<<"plan", m>>] # "none"
        BY <1>4, <1>5, <2>1
    <2>3. m \in ToSet(posted) => cmd'[<<"turn", m>>] # "none"
        BY <1>4, <1>5, <2>1 DEF IInv, NothingLost, FollowUpsQueued
    <2>4. CASE job.cmd = <<"turn", m>>
        <3>1. job.cmd[1] = "turn" /\ job.cmd[2] = m
            BY <2>4
        <3>2. job.pc = "ok" /\ attempt[m] = "candidate" => cmd[<<"plan", m>>] # "none"
            BY <3>1 DEF IInv, TurnHeld
        <3> QED
            BY <1>4, <1>5, <2>2, <2>3, <2>4, <3>2
    <2>5. CASE job.cmd # <<"turn", m>>
        BY <1>5, <2>1, <2>2, <2>3, <2>5 DEF IInv, NothingLost, FollowUpsQueued
    <2> QED
        BY <2>4, <2>5
<1>11. NothingLeftOpen'
    <2>1. ReplaySafe \subseteq Cmds
        BY DEF ReplaySafe
    <2> QED
        BY <1>1, <1>4, <1>5, <1>9, <2>1 DEF IInv, NothingLost, NothingLeftOpen
<1>12. OneRequestAtATime'
    <2>1. \A b \in Batches : <<"preview", b>> \in Cmds
        BY BatchCommands DEF Cmds
    <2> QED
        BY <1>1, <1>2, <1>4, <1>5, <2>1, RequestsMoveOn DEF Settled
<1> QED
    BY <1>1, <1>6, <1>7, <1>8, <1>10, <1>11, <1>12, PlanFrame, IntegrationFrame
       DEF IInv, NothingLost

-----------------------------------------------------------------------------
(* Clients and the loop. *)

(* What the job holds does not depend on commands that appear.             *)
LEMMA HeldFrame ==
    ASSUME IInv, UNCHANGED <<job, session, turnVars, rev, batch, applied>>,
           \A m \in Messages : cmd[<<"plan", m>>] # "none" => cmd'[<<"plan", m>>] # "none"
    PROVE  TurnHeld' /\ PlanHeld' /\ ApproveHeld' /\ ApplyHeld'
<1> USE DEF turnVars
<1>1. TurnHeld'
    <2>1. job.cmd[1] = "turn" => job.cmd[2] \in Messages
        BY JobKinds DEF IInv
    <2> QED
        BY <2>1 DEF IInv, TurnHeld
<1>2. PlanHeld' /\ ApproveHeld' /\ ApplyHeld'
    BY DEF IInv, PlanHeld, ApproveHeld, RequirementHead, ApplyHeld, Updating
<1> QED
    BY <1>1, <1>2

(* A new command, of any kind, is only pending; an integration is          *)
(* requested when the earlier ones are settled.                            *)
LEMMA SubmitOK ==
    ASSUME IInv, NEW c \in Cmds, Submit(c),
           \A b \in Batches : c = <<"preview", b>> =>
               \A a \in Batches : a < b => cmd[<<"preview", a>>] \in Settled
    PROVE  IInv'
<1> USE DEF turnVars, graphVars, taskVars
<1>1. /\ proc = "up" /\ cmd[c] = "none" /\ TypeOK
      /\ UNCHANGED <<proc, append, job, session, posted, turnVars, graphVars, taskVars,
                     batch, applied, crashes>>
    BY DEF Submit, IInv
<1>2. /\ cmd' \in [Cmds -> CmdStates] /\ cmd'[c] = "pending"
      /\ \A d \in Cmds : d # c => cmd'[d] = cmd[d]
    BY <1>1 DEF Submit, TypeOK, CmdStates
<1>3. TypeOK'
    BY <1>1, <1>2 DEF TypeOK
<1>4. JobAtWork' /\ StartCloses' /\ NothingLost'
    BY <1>1, <1>2, SubmitFrame
<1>5. TurnHeld' /\ PlanHeld' /\ ApproveHeld' /\ ApplyHeld'
    <2>1. \A m \in Messages : <<"plan", m>> \in Cmds
        BY MessageCommands DEF Cmds
    <2> QED
        BY <1>1, <1>2, <2>1, HeldFrame
<1>6. OneRequestAtATime'
    <2>1. \A b \in Batches : <<"preview", b>> \in Cmds
        BY BatchCommands DEF Cmds
    <2>2. ASSUME NEW a \in Batches, NEW b \in Batches, a < b, cmd'[<<"preview", b>>] # "none"
          PROVE  cmd'[<<"preview", a>>] \in Settled
        <3>1. cmd[<<"preview", a>>] \in Settled
            BY <1>2, <2>1, <2>2 DEF IInv, OneRequestAtATime
        <3>2. <<"preview", a>> # c
            BY <1>1, <3>1 DEF Settled
        <3> QED
            BY <1>2, <2>1, <3>1, <3>2
    <2>3. \A b \in Batches : batch'[b].st # "none" => cmd'[<<"preview", b>>] # "none"
        BY <1>1, <1>2, <2>1 DEF IInv, OneRequestAtATime
    <2> QED
        BY <2>2, <2>3 DEF OneRequestAtATime
<1> QED
    BY <1>1, <1>3, <1>4, <1>5, <1>6, PlanFrame, IntegrationFrame DEF IInv

(* Everything a client may submit.                                         *)
LEMMA ClientOK ==
    ASSUME IInv, Client
    PROVE  IInv'
<1>1. CASE \E m \in Messages : SendMessage(m) \/ ApproveGraph(m)
    <2>1. PICK m \in Messages : SendMessage(m) \/ ApproveGraph(m)
        BY <1>1
    <2>2. <<"append", m>> \in Cmds /\ <<"approve", m>> \in Cmds
        BY MessageCommands DEF Cmds
    <2>3. \A b \in Batches : <<"append", m>> # <<"preview", b>> /\ <<"approve", m>> # <<"preview", b>>
        OBVIOUS
    <2> QED
        BY <2>1, <2>2, <2>3, SubmitOK DEF SendMessage, ApproveGraph
<1>2. CASE \E b \in Batches : RequestIntegration(b)
    <2>1. PICK b \in Batches : RequestIntegration(b)
        BY <1>2
    <2>2. <<"preview", b>> \in Cmds
        BY BatchCommands DEF Cmds
    <2>3. \A x \in Batches : <<"preview", b>> = <<"preview", x>> => x = b
        OBVIOUS
    <2> QED
        BY <2>1, <2>2, <2>3, SubmitOK DEF RequestIntegration
<1>3. CASE \E b \in Batches : CreateResolutionTask(b)
    <2>1. PICK b \in Batches : CreateResolutionTask(b)
        BY <1>3
    <2>2. <<"resolve", b>> \in Cmds /\ \A x \in Batches : <<"resolve", b>> # <<"preview", x>>
        BY BatchCommands DEF Cmds
    <2> QED
        BY <2>1, <2>2, SubmitOK DEF CreateResolutionTask
<1>4. CASE \E b \in Batches : \E k \in Approvals[b] : ApproveIntegration(b, k)
    <2>0. PICK b \in Batches : \E k \in Approvals[b] : ApproveIntegration(b, k)
        BY <1>4
    <2>1. PICK k \in Approvals[b] : ApproveIntegration(b, k)
        BY <2>0
    <2>2. <<"apply", b, k>> \in Cmds /\ \A x \in Batches : <<"apply", b, k>> # <<"preview", x>>
        BY BatchCommands DEF Cmds
    <2> QED
        BY <2>1, <2>2, SubmitOK DEF ApproveIntegration
<1> QED
    BY <1>1, <1>2, <1>3, <1>4 DEF Client

(* A message joins those that were posted.                                 *)
LEMMA ToSetAppend ==
    ASSUME NEW s \in Seq(Messages), NEW m \in Messages
    PROVE  Append(s, m) \in Seq(Messages) /\ \A n \in ToSet(Append(s, m)) : n \in ToSet(s) \/ n = m
<1>1. Append(s, m) \in Seq(Messages) /\ Len(Append(s, m)) = Len(s) + 1 /\ Len(s) \in Nat
    OBVIOUS
<1>2. \A i \in 1 .. Len(s) : Append(s, m)[i] = s[i]
    OBVIOUS
<1>3. Append(s, m)[Len(s) + 1] = m
    OBVIOUS
<1>4. DOMAIN s = 1 .. Len(s) /\ DOMAIN Append(s, m) = 1 .. Len(s) + 1
    OBVIOUS
<1>5. \A i \in 1 .. Len(s) + 1 : i \in 1 .. Len(s) \/ i = Len(s) + 1
    BY <1>1
<1> QED
    BY <1>1, <1>2, <1>3, <1>4, <1>5 DEF ToSet

(* The loop claims the oldest pending message.                             *)
LEMMA ClaimAppendOK ==
    ASSUME IInv, ClaimAppend
    PROVE  IInv'
<1> USE DEF turnVars, graphVars, taskVars
<1>1. /\ proc = "up" /\ append = NoAppend /\ TypeOK
      /\ UNCHANGED <<proc, job, session, posted, turnVars, graphVars, taskVars,
                     batch, applied, crashes>>
    BY DEF ClaimAppend, IInv
<1>2. PICK m \in Messages :
        /\ cmd[<<"append", m>>] = "pending"
        /\ cmd' = [cmd EXCEPT ![<<"append", m>>] = "claimed"]
        /\ append' = <<m, "claimed">>
    <2>1. PICK c \in AppendCmds : /\ cmd[c] = "pending"
                                  /\ cmd' = [cmd EXCEPT ![c] = "claimed"]
                                  /\ append' = <<c[2], "claimed">>
        BY DEF ClaimAppend, FirstPending
    <2>2. PICK m \in Messages : c = <<"append", m>>
        BY DEF AppendCmds, OfMessage
    <2>3. c[2] = m
        BY <2>2
    <2> QED
        BY <2>1, <2>2, <2>3
<1>3. <<"append", m>> \in Cmds
    BY MessageCommands
<1>4. /\ cmd' \in [Cmds -> CmdStates] /\ cmd'[<<"append", m>>] = "claimed"
      /\ \A d \in Cmds : d # <<"append", m>> => cmd'[d] = cmd[d]
    BY <1>1, <1>2, <1>3 DEF TypeOK, CmdStates
<1>5. TypeOK'
    BY <1>1, <1>2, <1>4 DEF TypeOK
<1>6. /\ \A n \in Messages : /\ <<"turn", n>> \in Cmds /\ <<"turn", n>> # <<"append", m>>
                            /\ <<"plan", n>> \in Cmds /\ <<"plan", n>> # <<"append", m>>
      /\ \A b \in Batches : <<"preview", b>> \in Cmds /\ <<"preview", b>> # <<"append", m>>
    BY MessageCommands, BatchCommands DEF Cmds
<1>7. JobAtWork' /\ StartCloses'
    <2>1. job # NoJob => job.cmd \in Cmds /\ job.cmd # <<"append", m>>
        BY <1>1, JobKinds DEF IInv, JobAtWork
    <2> QED
        BY <1>1, <1>4, <2>1 DEF IInv, JobAtWork, StartCloses
<1>8. NothingLost'
    <2>1. FollowUpsQueued'
        BY <1>1, <1>4, <1>6 DEF IInv, NothingLost, FollowUpsQueued
    <2>2. NothingLeftOpen'
        <3>1. <<"append", NoMessage>> \notin Cmds
            <4>1. \A c \in Cmds : c = <<"append", NoMessage>> => NoMessage \in Messages
                BY KindOfCommand
            <4> QED
                BY <4>1, SessionConstants
        <3>2. append[1] = NoMessage /\ append'[1] = m
            BY <1>1, <1>2 DEF NoAppend
        <3>3. ReplaySafe \subseteq Cmds
            BY DEF ReplaySafe
        <3> QED
            BY <1>1, <1>4, <3>1, <3>2, <3>3 DEF IInv, NothingLost, NothingLeftOpen
    <2> QED
        BY <2>1, <2>2 DEF NothingLost
<1>9. TurnHeld' /\ PlanHeld' /\ ApproveHeld' /\ ApplyHeld'
    BY <1>1, <1>4, <1>6, HeldFrame
<1>10. OneRequestAtATime'
    BY <1>1, <1>4, <1>6, RequestFrame
<1> QED
    BY <1>1, <1>5, <1>7, <1>8, <1>9, <1>10, PlanFrame, IntegrationFrame DEF IInv

(* The message is settled, its follow-ups stay.                            *)
LEMMA FinishAppendOK ==
    ASSUME IInv, NEW m \in Messages, FinishAppend(m)
    PROVE  IInv'
<1> USE DEF turnVars, graphVars, taskVars
<1>1. /\ proc = "up" /\ append[1] = m /\ append[2] \in {"completed", "failed"} /\ TypeOK
      /\ append' = NoAppend /\ cmd' = [cmd EXCEPT ![<<"append", m>>] = append[2]]
      /\ UNCHANGED <<proc, job, session, posted, turnVars, graphVars, taskVars,
                     batch, applied, crashes>>
    BY DEF FinishAppend, IInv, Settled
<1>2. <<"append", m>> \in Cmds
    BY MessageCommands
<1>3. /\ cmd' \in [Cmds -> CmdStates] /\ cmd'[<<"append", m>>] = append[2]
      /\ \A d \in Cmds : d # <<"append", m>> => cmd'[d] = cmd[d]
    BY <1>1, <1>2 DEF TypeOK, CmdStates
<1>4. TypeOK'
    BY <1>1, <1>3 DEF TypeOK
<1>5. /\ \A n \in Messages : /\ <<"turn", n>> \in Cmds /\ <<"turn", n>> # <<"append", m>>
                            /\ <<"plan", n>> \in Cmds /\ <<"plan", n>> # <<"append", m>>
      /\ \A b \in Batches : <<"preview", b>> \in Cmds /\ <<"preview", b>> # <<"append", m>>
    BY MessageCommands, BatchCommands DEF Cmds
<1>6. JobAtWork' /\ StartCloses'
    <2>1. job # NoJob => job.cmd \in OrchestrationCmds
        BY <1>1, JobKinds DEF IInv, JobAtWork
    <2>2. job # NoJob => job.cmd \in Cmds /\ job.cmd # <<"append", m>>
        BY <2>1, KindOfCommand DEF Cmds
    <2> QED
        BY <1>1, <1>3, <2>2 DEF IInv, JobAtWork, StartCloses
<1>7. NothingLost'
    <2>1. FollowUpsQueued'
        BY <1>1, <1>3, <1>5 DEF IInv, NothingLost, FollowUpsQueued
    <2>2. NothingLeftOpen'
        <3>1. ReplaySafe \subseteq Cmds
            BY DEF ReplaySafe
        <3> QED
            BY <1>1, <1>3, <3>1 DEF IInv, NothingLost, NothingLeftOpen
    <2> QED
        BY <2>1, <2>2 DEF NothingLost
<1>8. TurnHeld' /\ PlanHeld' /\ ApproveHeld' /\ ApplyHeld'
    BY <1>1, <1>3, <1>5, HeldFrame
<1>9. OneRequestAtATime'
    BY <1>1, <1>3, <1>5, RequestFrame
<1> QED
    BY <1>1, <1>4, <1>6, <1>7, <1>8, <1>9, PlanFrame, IntegrationFrame DEF IInv

(* The message is stored with its conversation command; what it makes      *)
(* obsolete is withdrawn in the same transaction, and an update that the   *)
(* job prepared before is no longer fresh.                                 *)
LEMMA AppendNewOK ==
    ASSUME IInv, NEW m \in Messages, AppendNew(m)
    PROVE  IInv'
<1> USE DEF turnVars, taskVars
<1>1. /\ proc = "up" /\ append = <<m, "claimed">> /\ append' = <<m, "completed">> /\ TypeOK
      /\ posted' = Append(posted, m) /\ cmd' = Derived(cmd, <<"turn", m>>)
      /\ UNCHANGED <<proc, turnVars, head, taskVars, batch, applied, crashes>>
    BY DEF AppendNew, IInv
<1>2. \A n \in Messages : <<"turn", n>> \in Cmds /\ <<"plan", n>> \in Cmds /\ <<"plan", n>> # <<"turn", m>>
    BY MessageCommands DEF Cmds
<1>3. /\ cmd' \in [Cmds -> CmdStates] /\ cmd'[<<"turn", m>>] # "none"
      /\ \A d \in Cmds : \/ cmd'[d] = cmd[d]
                         \/ d = <<"turn", m>> /\ cmd[d] = "none" /\ cmd'[d] = "pending"
    <2>1. <<"turn", m>> \in Cmds
        BY <1>2
    <2> QED
        BY <1>1, <2>1, DerivedFacts
<1>4. /\ job'.cmd = job.cmd /\ job'.pc = job.pc /\ job'.next = job.next
      /\ job'.verdict = job.verdict /\ job' \in Jobs /\ (job = NoJob => job' = NoJob)
      /\ \/ UNCHANGED <<rev, session, job>> /\ session \notin PreTask
         \/ /\ session \in PreTask /\ session' = "drafting" /\ job'.fresh = FALSE
            /\ rev' = Superseded(rev, {"planning", "awaiting"})
    <2>1. job \in Jobs
        BY <1>1 DEF TypeOK
    <2>2. CASE session \notin PreTask
        BY <2>1, <2>2 DEF AppendNew, InvalidatePreTaskCandidate
    <2>3. CASE session \in PreTask
        <3>1. job' = [job EXCEPT !.fresh = FALSE] /\ session' = "drafting"
              /\ rev' = Superseded(rev, {"planning", "awaiting"})
            BY <2>3 DEF AppendNew, InvalidatePreTaskCandidate
        <3>2. /\ job'.cmd = job.cmd /\ job'.pc = job.pc /\ job'.next = job.next
              /\ job'.verdict = job.verdict /\ job' \in Jobs /\ job'.fresh = FALSE
            BY <2>1, <3>1 DEF Jobs
        <3>3. job = NoJob => job' = NoJob
            BY <3>2, IdleJob
        <3> QED
            BY <2>3, <3>1, <3>2, <3>3
    <2> QED
        BY <2>2, <2>3
<1>5. /\ rev' \in [Messages -> {"none", "planning", "awaiting", "invalid", "approved", "superseded"}]
      /\ \A n \in Messages : rev'[n] = rev[n] \/ rev'[n] = "superseded"
    BY <1>1, <1>4, SupersededFacts DEF TypeOK
<1>6. posted' \in Seq(Messages) /\ \A n \in ToSet(posted') : n \in ToSet(posted) \/ n = m
    BY <1>1, ToSetAppend DEF TypeOK
<1>7. TypeOK'
    <2>1. session' \in SessionStates
        BY <1>1, <1>4 DEF TypeOK, SessionStates
    <2>2. append' \in Messages \X {"claimed", "completed", "failed"}
        BY <1>1
    <2> QED
        BY <1>1, <1>3, <1>4, <1>5, <1>6, <2>1, <2>2 DEF TypeOK
<1>8. JobAtWork' /\ StartCloses'
    <2>1. job # NoJob => job.cmd \in Cmds /\ cmd[job.cmd] = "claimed" /\ job.cmd # <<"none">>
        BY <1>1, JobKinds DEF IInv, JobAtWork
    <2>2. job' # NoJob => cmd'[job.cmd] = "claimed"
        BY <1>3, <1>4, <2>1
    <2> QED
        BY <1>1, <1>4, <2>1, <2>2 DEF IInv, JobAtWork, StartCloses
<1>9. FollowUpsQueued'
    BY <1>1, <1>2, <1>3, <1>6 DEF IInv, NothingLost, FollowUpsQueued
<1>10. NothingLeftOpen'
    <2>1. ReplaySafe \subseteq Cmds
        BY DEF ReplaySafe
    <2>2. append[1] = m /\ append'[1] = m
        BY <1>1
    <2> QED
        BY <1>1, <1>3, <1>4, <2>1, <2>2 DEF IInv, NothingLost, NothingLeftOpen
<1>11. TurnHeld'
    <2>1. job.cmd[1] = "turn" => job.cmd[2] \in Messages
        BY <1>1, JobKinds
    <2> QED
        BY <1>1, <1>2, <1>3, <1>4, <2>1 DEF IInv, TurnHeld
<1>12. PlanHeld'
    <2>1. CASE UNCHANGED <<rev, session, job>>
        BY <2>1 DEF IInv, PlanHeld, Updating
    <2>2. CASE session' = "drafting" /\ job'.fresh = FALSE
        BY <1>4, <2>2 DEF IInv, PlanHeld, Updating, FromPlanning
    <2> QED
        BY <1>4, <2>1, <2>2
<1>13. ApproveHeld' /\ ApplyHeld'
    BY <1>1, <1>4 DEF IInv, ApproveHeld, RequirementHead, ApplyHeld, Updating
<1>14. OneRequestAtATime'
    <2>1. \A b \in Batches : <<"preview", b>> \in Cmds /\ <<"preview", b>> # <<"turn", m>>
        BY BatchCommands DEF Cmds
    <2> QED
        BY <1>1, <1>3, <2>1, RequestFrame
<1>15. PlanCoherent'
    <2>1. OneLiveGraph'
        BY <1>1, <1>5 DEF IInv, PlanCoherent, OneLiveGraph
    <2>2. AwaitingShowsProposal'
        BY <1>1, <1>4 DEF AwaitingShowsProposal, PreTask
    <2> QED
        BY <2>1, <2>2 DEF PlanCoherent
<1>16. IntegrationHonest'
    BY <1>1, <1>4 DEF IInv, IntegrationHonest, CompletedByApplication, AppliedOnce
<1> QED
    BY <1>7, <1>8, <1>9, <1>10, <1>11, <1>12, <1>13, <1>14, <1>15, <1>16
       DEF IInv, NothingLost

(* A replayed message finds itself stored.                                 *)
LEMMA AppendReplayedOK ==
    ASSUME IInv, NEW m \in Messages, AppendReplayed(m)
    PROVE  IInv'
<1> USE DEF turnVars, graphVars, taskVars
<1>1. /\ proc = "up" /\ append = <<m, "claimed">> /\ TypeOK
      /\ append' = <<m, "completed">> \/ append' = <<m, "failed">>
      /\ UNCHANGED <<proc, job, session, posted, turnVars, graphVars, taskVars,
                     batch, applied, crashes>>
    BY DEF AppendReplayed, IInv
<1>2. \A n \in Messages : <<"turn", n>> \in Cmds /\ <<"plan", n>> \in Cmds
    BY MessageCommands DEF Cmds
<1>3. /\ cmd' \in [Cmds -> CmdStates]
      /\ \A d \in Cmds : \/ cmd'[d] = cmd[d]
                         \/ d = <<"turn", m>> /\ cmd[d] = "none" /\ cmd'[d] = "pending"
    <2>1. <<"turn", m>> \in Cmds
        BY <1>2
    <2>2. CASE UNCHANGED cmd
        BY <1>1, <2>2 DEF TypeOK
    <2>3. CASE cmd' = Derived(cmd, <<"turn", m>>)
        BY <1>1, <2>1, <2>3, DerivedFacts
    <2> QED
        BY <2>2, <2>3 DEF AppendReplayed
<1>4. TypeOK'
    BY <1>1, <1>3 DEF TypeOK
<1>5. JobAtWork' /\ StartCloses'
    <2>1. job # NoJob => job.cmd \in Cmds
        BY <1>1, JobKinds DEF IInv, JobAtWork
    <2> QED
        BY <1>1, <1>3, <2>1 DEF IInv, JobAtWork, StartCloses
<1>6. NothingLost'
    <2>1. FollowUpsQueued'
        BY <1>1, <1>2, <1>3 DEF IInv, NothingLost, FollowUpsQueued
    <2>2. NothingLeftOpen'
        <3>1. ReplaySafe \subseteq Cmds
            BY DEF ReplaySafe
        <3>2. append'[1] = append[1]
            BY <1>1
        <3> QED
            BY <1>1, <1>3, <3>1, <3>2 DEF IInv, NothingLost, NothingLeftOpen
    <2> QED
        BY <2>1, <2>2 DEF NothingLost
<1>7. TurnHeld' /\ PlanHeld' /\ ApproveHeld' /\ ApplyHeld'
    BY <1>1, <1>2, <1>3, HeldFrame
<1>8. OneRequestAtATime'
    <2>1. \A b \in Batches : <<"preview", b>> \in Cmds /\ <<"preview", b>> # <<"turn", m>>
        BY BatchCommands DEF Cmds
    <2> QED
        BY <1>1, <1>3, <2>1, RequestFrame
<1> QED
    BY <1>1, <1>4, <1>5, <1>6, <1>7, <1>8, PlanFrame, IntegrationFrame DEF IInv

-----------------------------------------------------------------------------
(* The process. *)

(* A crash loses what was in memory, and a start begins with nothing.      *)
LEMMA CrashOK ==
    ASSUME IInv, Crash \/ StartDaemon
    PROVE  IInv'
<1> USE DEF dbVars, queueVars, turnVars, graphVars, taskVars, intVars
<1>1. /\ UNCHANGED dbVars /\ job' = NoJob /\ append' = NoAppend
      /\ proc' \in {"down", "attempts"} /\ crashes' \in 0 .. MaxCrashes
    BY SessionConstants DEF Crash, StartDaemon, IInv, JobAtWork, TypeOK
<1>2. /\ TurnHeld' /\ PlanHeld' /\ ApproveHeld' /\ ApplyHeld'
      /\ job' \in Jobs /\ job'.cmd = <<"none">> /\ job'.pc \in PcsOf[job'.cmd[1]]
    BY <1>1, IdleHolds
<1>3. TypeOK'
    BY <1>1, <1>2 DEF IInv, TypeOK
<1>4. JobAtWork' /\ StartCloses' /\ NothingLost'
    BY <1>1, <1>2 DEF IInv, JobAtWork, StartCloses, NothingLost, FollowUpsQueued, NothingLeftOpen
<1> QED
    BY <1>1, <1>2, <1>3, <1>4, PlanFrame, IntegrationFrame, RequestFrame DEF IInv

(* The start closes the attempts and requeues the commands of the process  *)
(* that died.                                                              *)
LEMMA ReconcileCommandsOK ==
    ASSUME IInv, ReconcileAttempts \/ RecoverCommands
    PROVE  IInv'
<1> USE DEF turnVars, graphVars, taskVars, intVars
<1>1. /\ proc # "up" /\ job = NoJob /\ append = NoAppend /\ TypeOK
      /\ UNCHANGED <<job, append, session, posted, reqs, graphVars, taskVars, intVars, crashes>>
    BY DEF ReconcileAttempts, RecoverCommands, IInv, JobAtWork
<1>2. /\ TurnHeld' /\ PlanHeld' /\ ApproveHeld' /\ ApplyHeld'
      /\ job' \in Jobs /\ job'.cmd = <<"none">> /\ job'.pc \in PcsOf[job'.cmd[1]]
    BY <1>1, IdleHolds
<1>3. /\ cmd' \in [Cmds -> CmdStates]
      /\ \A c \in Cmds : /\ cmd[c] \notin {"pending", "claimed"} => cmd'[c] = cmd[c]
                         /\ cmd'[c] = "none" => cmd[c] = "none"
                         /\ cmd'[c] = "completed" => cmd[c] = "completed"
    BY <1>1 DEF ReconcileAttempts, RecoverCommands, TypeOK, CmdStates
<1>4. /\ attempt' \in [Messages -> {"none", "running", "failed"} \cup Outcomes]
      /\ \A m \in Messages : attempt'[m] = attempt[m] \/ attempt'[m] = "failed"
      /\ \A m \in Messages : attempt'[m] # "running"
    BY <1>1 DEF ReconcileAttempts, RecoverCommands, IInv, StartCloses, TypeOK
<1>5. proc' \in {"commands", "integrations"}
      /\ (proc' = "integrations" => \A c \in ReplaySafe : cmd'[c] # "claimed")
    BY <1>1 DEF ReconcileAttempts, RecoverCommands, ReplaySafe, TypeOK, CmdStates
<1>6. TypeOK'
    BY <1>1, <1>2, <1>3, <1>4, <1>5 DEF TypeOK
<1>7. JobAtWork' /\ StartCloses'
    BY <1>1, <1>2, <1>4, <1>5 DEF JobAtWork, StartCloses
<1>8. NothingLost'
    <2>1. \A m \in Messages : <<"turn", m>> \in Cmds /\ <<"plan", m>> \in Cmds
        BY MessageCommands DEF Cmds
    <2>2. FollowUpsQueued'
        BY <1>1, <1>3, <1>4, <2>1 DEF IInv, NothingLost, FollowUpsQueued
    <2> QED
        BY <1>5, <2>2 DEF NothingLost, NothingLeftOpen
<1>9. OneRequestAtATime'
    <2>1. \A b \in Batches : <<"preview", b>> \in Cmds
        BY BatchCommands DEF Cmds
    <2> QED
        BY <1>1, <1>3, <2>1, RequestsMoveOn DEF Settled
<1> QED
    BY <1>1, <1>2, <1>6, <1>7, <1>8, <1>9, PlanFrame, IntegrationFrame DEF IInv

(* An application that was interrupted needs attention, and the session is *)
(* closed only by one that was recorded.                                   *)
LEMMA ReconcileIntegrationsOK ==
    ASSUME IInv, ReconcileIntegrations
    PROVE  /\ IInv'
           /\ \A x \in Batches : batch[x].st = "needs_attention" => batch'[x] = batch[x]
<1> USE DEF queueVars, turnVars, graphVars, taskVars
<1>1. /\ proc = "integrations" /\ job = NoJob /\ append = NoAppend /\ TypeOK
      /\ UNCHANGED <<queueVars, posted, turnVars, graphVars, taskVars, applied, append, job, crashes>>
      /\ proc' \in {"down", "up"}
    BY DEF ReconcileIntegrations, IInv, JobAtWork
<1>2. /\ TurnHeld' /\ PlanHeld' /\ ApproveHeld' /\ ApplyHeld'
      /\ job' \in Jobs /\ job'.cmd = <<"none">> /\ job'.pc \in PcsOf[job'.cmd[1]]
    BY <1>1, IdleHolds
<1>3. JobAtWork' /\ StartCloses'
    BY <1>1, <1>2 DEF JobAtWork, StartCloses
<1>4. NothingLost'
    BY <1>1 DEF IInv, StartCloses, NothingLost, FollowUpsQueued, NothingLeftOpen
<1>5. CASE UNCHANGED <<batch, session>>
    <2>1. TypeOK'
        BY <1>1, <1>2, <1>5 DEF TypeOK
    <2> QED
        BY <1>1, <1>2, <1>3, <1>4, <1>5, <2>1, PlanFrame, IntegrationFrame, RequestFrame DEF IInv
<1>6. CASE ~ UNCHANGED <<batch, session>>
    <2>1. /\ batch' = [b \in Batches |-> IF b \in Interrupted
                                         THEN [batch[b] EXCEPT !.st = "needs_attention"]
                                         ELSE batch[b]]
          /\ session' = ReconciledSession
        BY <1>6 DEF ReconcileIntegrations
    <2>2. ASSUME NEW b \in Batches
          PROVE  /\ batch'[b] \in {NoBatch} \cup [st : BatchStates, rev : Messages,
                                                 by : Batches \cup {0}, resolvable : BOOLEAN]
                 /\ batch'[b].st = "none" \/ batch[b].st # "none"
                 /\ batch'[b].st = "applied" => batch[b].st = "applied"
                 /\ batch[b].st \in {"applied", "needs_attention"} => batch'[b] = batch[b]
        <3>1. CASE b \in Interrupted
            <4>1. batch[b].st \in {"approved", "applying"}
                BY <3>1 DEF Interrupted
            <4>2. batch'[b] = [batch[b] EXCEPT !.st = "needs_attention"]
                BY <2>1, <3>1
            <4>3. batch[b] \in [st : BatchStates, rev : Messages,
                                by : Batches \cup {0}, resolvable : BOOLEAN]
                BY <1>1, <4>1 DEF TypeOK, NoBatch
            <4> QED
                BY <4>1, <4>2, <4>3 DEF BatchStates
        <3>2. CASE b \notin Interrupted
            BY <1>1, <2>1, <3>2 DEF TypeOK
        <3> QED
            BY <3>1, <3>2
    <2>3. batch' \in [Batches -> {NoBatch} \cup [st : BatchStates, rev : Messages,
                                                by : Batches \cup {0}, resolvable : BOOLEAN]]
        BY <2>1, <2>2
    <2>4. \/ session' = "needs_attention"
          \/ session' = "completed" /\ \E b \in Batches : batch[b].st = "applied"
          \/ session' = session
        BY <2>1 DEF ReconciledSession, Unclosed
    <2>5. TypeOK'
        <3>1. session' \in SessionStates
            BY <1>1, <2>4 DEF TypeOK, SessionStates
        <3> QED
            BY <1>1, <1>2, <2>3, <3>1 DEF TypeOK
    <2>6. PlanCoherent'
        BY <1>1, <2>4 DEF IInv, PlanCoherent, OneLiveGraph, AwaitingShowsProposal
    <2>7. IntegrationHonest'
        BY <1>1, <2>2, <2>4 DEF IInv, IntegrationHonest, CompletedByApplication, AppliedOnce
    <2>8. OneRequestAtATime'
        BY <1>1, <2>2, RequestFrame
    <2> QED
        BY <1>2, <1>3, <1>4, <2>2, <2>5, <2>6, <2>7, <2>8 DEF IInv
<1> QED
    BY <1>5, <1>6

(* The tasks proceed at their own pace.                                    *)
LEMMA WorkersOK ==
    ASSUME IInv, Workers
    PROVE  IInv'
<1> USE DEF jobFrame, turnVars, graphVars, intVars
<1>1. UNCHANGED <<proc, append, posted, crashes, cmd, job, session, turnVars, graphVars,
                  overlap, intVars>>
    BY DEF Workers, StartTasks, EndTasks, ResolutionDone
<1>2. /\ task' \in [Messages -> {"none", "queued", "running", "completed"}]
      /\ res' \in [Batches -> {"none", "queued", "completed"}]
    BY DEF Workers, StartTasks, EndTasks, ResolutionDone, IInv, TypeOK
<1>3. TypeOK'
    BY <1>1, <1>2 DEF IInv, TypeOK
<1>4. JobAtWork' /\ StartCloses' /\ NothingLost'
    BY <1>1 DEF IInv, JobAtWork, StartCloses, NothingLost, FollowUpsQueued, NothingLeftOpen
<1>5. TurnHeld' /\ PlanHeld' /\ ApproveHeld' /\ ApplyHeld'
    BY <1>1, HeldFrame
<1> QED
    BY <1>1, <1>3, <1>4, <1>5, PlanFrame, IntegrationFrame, RequestFrame DEF IInv

-----------------------------------------------------------------------------
(* Every step. *)

(* Nothing has been asked for.                                             *)
LEMMA InitOK == Init => IInv
<1> SUFFICES ASSUME Init PROVE IInv
    OBVIOUS
<1>1. job = NoJob /\ append = NoAppend /\ job.cmd = <<"none">> /\ job.pc = "idle"
    BY DEF Init, NoJob
<1>2. job \in Jobs /\ job.pc \in PcsOf[job.cmd[1]]
    BY <1>1 DEF NoJob, Jobs, JobPcs, PcsOf
<1>3. TypeOK
    BY <1>2, SessionConstants DEF Init, TypeOK, CmdStates, SessionStates
<1>4. JobAtWork /\ StartCloses /\ TurnHeld
    BY <1>1, <1>2 DEF Init, JobAtWork, StartCloses, TurnHeld
<1>5. PlanHeld /\ ApproveHeld /\ ApplyHeld
    BY <1>1 DEF PlanHeld, ApproveHeld, ApplyHeld, Updating, Drawing
<1>6. OneRequestAtATime
    BY BatchCommands DEF Init, OneRequestAtATime, NoBatch, Cmds
<1>7. NothingLost
    <2>1. ToSet(posted) = {}
        BY DEF Init, ToSet
    <2>2. \A m \in Messages : cmd[<<"turn", m>>] = "none"
        BY MessageCommands DEF Init, Cmds
    <2> QED
        BY <2>1, <2>2 DEF Init, NothingLost, FollowUpsQueued, NothingLeftOpen
<1>8. PlanCoherent
    BY DEF Init, PlanCoherent, OneLiveGraph, AwaitingShowsProposal
<1>9. IntegrationHonest
    BY DEF Init, IntegrationHonest, CompletedByApplication, AppliedOnce, NoBatch
<1> QED
    BY <1>3, <1>4, <1>5, <1>6, <1>7, <1>8, <1>9 DEF IInv

(* Every step of the job keeps IInv.                                       *)
LEMMA JobOK ==
    ASSUME IInv, Job
    PROVE  IInv'
<1>1. CASE ClaimOrchestration \/ FinishOrchestration \/ TransitionSession
    BY <1>1, ClaimOrchestrationOK, FinishOrchestrationOK, TransitionSessionOK
<1>2. CASE \E m \in Messages :
              TurnCheck(m) \/ Converse(m) \/ AppendResponse(m)
              \/ RecordRequirementRevision(m) \/ DerivePlan(m)
    BY <1>2, TurnOK, AppendResponseOK, RecordRequirementRevisionOK, DerivePlanOK
<1>3. CASE \E m \in Messages :
              PlanCheck(m) \/ BeginGraphAttempt(m) \/ Propose(m) \/ ToValidating(m)
              \/ ValidateAuthority(m) \/ FinishGraphAttempt(m) \/ FinishPlanning(m)
    BY <1>3, PlanCheckOK, BeginGraphAttemptOK, ProposeOK, ValidateAuthorityOK,
       FinishGraphAttemptOK, FinishPlanningOK
<1>4. CASE \E m \in Messages : ApproveCheck(m) \/ Materialize(m) \/ ApprovedSession(m)
    BY <1>4, ApproveStepOK, MaterializeOK
<1>5. CASE \E b \in Batches :
              Preview(b) \/ ApplyCheck(b) \/ StartApplication(b) \/ ApplySources(b)
              \/ FinishApplication(b) \/ Resolve(b)
    BY <1>5, PreviewOK, ApplyOK, ResolveOK
<1>6. CASE PreviewBlocked \/ ToIntegrating \/ ToVerifying \/ ToCompleted
           \/ ApplyNeedsAttention \/ ToRunning
    BY <1>6, MoveAsideOK, MoveApplyOK
<1> QED
    BY <1>1, <1>2, <1>3, <1>4, <1>5, <1>6 DEF Job

(* A step that changes nothing.                                            *)
LEMMA StutterOK ==
    ASSUME IInv, UNCHANGED vars
    PROVE  IInv'
<1> USE DEF vars, queueVars, turnVars, graphVars, taskVars
<1>1. TypeOK'
    BY DEF IInv, TypeOK
<1>2. JobAtWork' /\ StartCloses' /\ NothingLost'
    BY DEF IInv, JobAtWork, StartCloses, NothingLost, FollowUpsQueued, NothingLeftOpen
<1>3. TurnHeld' /\ PlanHeld' /\ ApproveHeld' /\ ApplyHeld'
    BY HeldFrame
<1> QED
    BY <1>1, <1>2, <1>3, PlanFrame, IntegrationFrame, RequestFrame DEF IInv

(* IInv is inductive.                                                      *)
LEMMA StepOK == IInv /\ [Next]_vars => IInv'
<1> SUFFICES ASSUME IInv, [Next]_vars PROVE IInv'
    OBVIOUS
<1>1. CASE Client
    BY <1>1, ClientOK
<1>2. CASE Loop
    BY <1>2, ClaimAppendOK, AppendNewOK, AppendReplayedOK, FinishAppendOK DEF Loop
<1>3. CASE Job
    BY <1>3, JobOK
<1>4. CASE Startup
    BY <1>4, CrashOK, ReconcileCommandsOK, ReconcileIntegrationsOK DEF Startup
<1>5. CASE Workers
    BY <1>5, WorkersOK
<1>6. CASE Crash
    BY <1>6, CrashOK
<1>7. CASE UNCHANGED vars
    BY <1>7, StutterOK
<1> QED
    BY <1>1, <1>2, <1>3, <1>4, <1>5, <1>6, <1>7 DEF Next

(* The inductive invariant of a session holds.                             *)
THEOREM SessionInvariant == Spec => []IInv
<1>1. Init => IInv
    BY InitOK
<1>2. IInv /\ [Next]_vars => IInv'
    BY StepOK
<1> QED
    BY <1>1, <1>2, PTL DEF Spec

(* The tables and the memory of the process stay well formed.              *)
THEOREM TypeCorrect == Spec => []TypeOK
<1>1. IInv => TypeOK
    BY DEF IInv
<1> QED
    BY <1>1, SessionInvariant, PTL

(* Across any number of crashes, a posted message has its turn, a turn     *)
(* that calls for a plan has it queued, and a start leaves no attempt and  *)
(* no replayable command open (sessions.rs, conversation.rs, lib.rs).      *)
THEOREM NothingIsLost == Spec => []NothingLost
<1>1. IInv => NothingLost
    BY DEF IInv
<1> QED
    BY <1>1, SessionInvariant, PTL

(* However messages interleave with the planning job, one graph at most is *)
(* in force, and a session that asks for approval shows it (graphs.rs,     *)
(* sessions.rs, planning.rs).                                              *)
THEOREM PlansCohere == Spec => []PlanCoherent
<1>1. IInv => PlanCoherent
    BY DEF IInv
<1> QED
    BY <1>1, SessionInvariant, PTL

(* What is recorded as applied was applied exactly once, and nothing else  *)
(* completes a session (integrations.rs, integration.rs).                  *)
THEOREM IntegrationIsHonest == Spec => []IntegrationHonest
<1>1. IInv => IntegrationHonest
    BY DEF IInv
<1> QED
    BY <1>1, SessionInvariant, PTL

-----------------------------------------------------------------------------
(* What a step may never do. *)

(* A step creates tasks only in the approval of the latest goal.           *)
LEMMA StepMaterialises ==
    IInv /\ [Next]_vars =>
        [\A m \in Messages : task[m] = "none" /\ task'[m] # "none" =>
             m = LatestGoal /\ m = RequirementHead /\ head = m]_vars
<1> SUFFICES ASSUME IInv, Next, NEW m \in Messages, task[m] = "none", task'[m] # "none"
             PROVE  m = LatestGoal /\ m = RequirementHead /\ head = m
    OBVIOUS
<1>1. task \in [Messages -> {"none", "queued", "running", "completed"}]
    BY DEF IInv, TypeOK
<1>2. CASE \E n \in Messages : Materialize(n)
    <2>1. PICK n \in Messages : Materialize(n)
        BY <1>2
    <2>2. task' # task
        BY <1>1
    <2>3. head = n /\ LatestGoal = n /\ task' = [task EXCEPT ![n] = "queued"]
        BY <2>1, <2>2 DEF Materialize, CreateTasks
    <2>4. n = m
        BY <1>1, <2>3
    <2>5. RequirementHead = n
        BY <2>1 DEF Materialize, At, IInv, ApproveHeld
    <2> QED
        BY <2>3, <2>4, <2>5
<1>3. CASE Workers
    BY <1>1, <1>3 DEF Workers, StartTasks, EndTasks, ResolutionDone
<1>4. CASE UNCHANGED task
    BY <1>4
<1>5. Client => UNCHANGED task
    BY DEF Client, SendMessage, ApproveGraph, RequestIntegration, ApproveIntegration,
           CreateResolutionTask, Submit, taskVars
<1>6. Loop \/ Startup \/ Crash => UNCHANGED task
    BY DEF Loop, ClaimAppend, AppendNew, AppendReplayed, FinishAppend, Startup, StartDaemon,
           ReconcileAttempts, RecoverCommands, ReconcileIntegrations, Crash, dbVars, taskVars
<1>7. Job => UNCHANGED task \/ \E n \in Messages : Materialize(n)
    BY DEF Job, ClaimOrchestration, FinishOrchestration, TransitionSession, TurnCheck, Converse,
           AppendResponse, RecordRequirementRevision, DerivePlan, PlanCheck, BeginGraphAttempt,
           Propose, ToValidating, ValidateAuthority, FinishGraphAttempt, FinishPlanning,
           ApproveCheck, ApprovedSession, Preview, ApplyCheck, StartApplication, ApplySources,
           FinishApplication, Resolve, PreviewBlocked, ToIntegrating, ToVerifying, ToCompleted,
           ApplyNeedsAttention, ToRunning, Move, taskVars
<1> QED
    BY <1>2, <1>3, <1>4, <1>5, <1>6, <1>7 DEF Next

(* Tasks are created only for the latest message, under the requirement    *)
(* revision in force, from the graph that is the head                      *)
(* (graphs.rs approve_graph_and_materialize_tasks).                        *)
THEOREM OnlyWantedTasks == Spec => MaterialisedWhenWanted
<1>1. IInv /\ [Next]_vars =>
        [\A m \in Messages : task[m] = "none" /\ task'[m] # "none" =>
             m = LatestGoal /\ m = RequirementHead /\ head = m]_vars
    BY StepMaterialises
<1> QED
    BY <1>1, SessionInvariant, PTL DEF Spec, MaterialisedWhenWanted

(* No step touches a batch that needs attention.                           *)
LEMMA StepLeavesFailed ==
    IInv /\ [Next]_vars =>
        [\A b \in Batches : batch[b].st = "needs_attention" => batch'[b] = batch[b]]_vars
<1> SUFFICES ASSUME IInv, Next
             PROVE  \A b \in Batches : batch[b].st = "needs_attention" => batch'[b] = batch[b]
    OBVIOUS
<1>1. CASE \E b \in Batches : Preview(b)
    BY <1>1, PreviewOK
<1>2. CASE \E b \in Batches :
              ApplyCheck(b) \/ StartApplication(b) \/ ApplySources(b) \/ FinishApplication(b)
    BY <1>2, ApplyOK
<1>3. CASE ReconcileIntegrations
    BY <1>3, ReconcileIntegrationsOK
<1>4. CASE UNCHANGED batch
    BY <1>4
<1>5. Client => UNCHANGED batch
    BY DEF Client, SendMessage, ApproveGraph, RequestIntegration, ApproveIntegration,
           CreateResolutionTask, Submit
<1>6. Loop \/ Workers \/ Crash => UNCHANGED batch
    BY DEF Loop, ClaimAppend, AppendNew, AppendReplayed, FinishAppend, Workers, StartTasks,
           EndTasks, ResolutionDone, Crash, dbVars, intVars
<1>7. Startup => UNCHANGED batch \/ ReconcileIntegrations
    BY DEF Startup, StartDaemon, ReconcileAttempts, RecoverCommands, dbVars, intVars
<1>8. Job => \/ UNCHANGED batch
             \/ \E b \in Batches : \/ Preview(b) \/ ApplyCheck(b) \/ StartApplication(b)
                                   \/ ApplySources(b) \/ FinishApplication(b)
    BY DEF Job, ClaimOrchestration, FinishOrchestration, TransitionSession, TurnCheck, Converse,
           AppendResponse, RecordRequirementRevision, DerivePlan, PlanCheck, BeginGraphAttempt,
           Propose, ToValidating, ValidateAuthority, FinishGraphAttempt, FinishPlanning,
           ApproveCheck, Materialize, ApprovedSession, Resolve, PreviewBlocked, ToIntegrating,
           ToVerifying, ToCompleted, ApplyNeedsAttention, ToRunning, Move, intVars
<1> QED
    BY <1>1, <1>2, <1>3, <1>4, <1>5, <1>6, <1>7, <1>8 DEF Next

(* A batch whose application failed or was interrupted is left to the      *)
(* user: no approval, replay or restart applies or changes it again        *)
(* (integrations.rs, client_commands.rs).                                  *)
THEOREM FailedApplicationsStay == Spec => NeverBlindlyReplayed
<1>1. IInv /\ [Next]_vars =>
        [\A b \in Batches : batch[b].st = "needs_attention" => batch'[b] = batch[b]]_vars
    BY StepLeavesFailed
<1> QED
    BY <1>1, SessionInvariant, PTL DEF Spec, NeverBlindlyReplayed
=============================================================================
