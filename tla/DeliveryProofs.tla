----------------------------- MODULE DeliveryProofs -----------------------------
(***************************************************************************)
(* What is sent to a task and what comes back from its provider.           *)
(* Instructions are delivered faithfully, for every finite set of messages *)
(* and any number of crashes, lost claims and replays: IInv of             *)
(* InstructionDelivery is inductive.  A run of a provider is complete when *)
(* it is reported a success, and its work is handed over once, for every   *)
(* capacity of its channels: IInv of WorkerRun is inductive.               *)
(***************************************************************************)
EXTENDS InstructionDelivery, Integers, FiniteSetTheorems, SequenceTheorems, TLAPS

(* The variables the loop and the clients leave alone, with what follows.  *)
jobSide == <<instrVars, jobVars, faults>>

-----------------------------------------------------------------------------
(* Nothing is sent, claimed or accepted.                                   *)
LEMMA InitOK == Init => IInv
<1> SUFFICES ASSUME Init PROVE IInv
    OBVIOUS
<1>1. TypeOK
    <2>1. Cardinality(Messages) \in Nat
        BY InstructionConstants, FS_CardinalityType
    <2> QED
        BY <2>1, InstructionConstants
           DEF Init, TypeOK, CommandStates, InstructionStates, TaskStates, JobPcs
<1>2. RoundHolds /\ ClaimedInOrder /\ RoundIncluded
    BY DEF Init, RoundHolds, ClaimedInOrder, RoundIncluded, Round
<1>3. JobMatchesTask /\ NothingClaimedYet /\ LoopHolds
    BY DEF Init, JobMatchesTask, NothingClaimedYet, LoopHolds, Round, Idle
<1>4. OrdinalsCounted
    <2>1. {n \in Messages : ordinal[n] # 0} = {}
        BY DEF Init
    <2>2. Cardinality({n \in Messages : ordinal[n] # 0}) = 0
        BY <2>1, FS_EmptySet
    <2>3. \A m \in Messages : ordinal[m] = 0
        BY DEF Init
    <2>4. \A k \in Messages : \E m \in Messages : \A n \in Messages : ordinal[n] <= ordinal[m]
        BY <2>3
    <2> QED
        BY <2>2, <2>3, <2>4 DEF OrdinalsCounted
<1>5. DeliveredFaithfully
    BY DEF Init, DeliveredFaithfully, AppliedWasIncluded, AppliedInOrder,
           CommandMatchesInstruction, DrainedBeforeVerifying
<1> QED
    BY <1>1, <1>2, <1>3, <1>4, <1>5 DEF IInv

-----------------------------------------------------------------------------
(* Clients and the loop. *)

(* A step that leaves instructions and the job alone keeps what is said of *)
(* them.                                                                   *)
LEMMA LoopFrame ==
    ASSUME IInv, UNCHANGED jobSide
    PROVE  /\ RoundHolds' /\ ClaimedInOrder' /\ RoundIncluded'
           /\ JobMatchesTask' /\ NothingClaimedYet' /\ OrdinalsCounted'
           /\ AppliedWasIncluded' /\ AppliedInOrder' /\ DrainedBeforeVerifying'
<1> USE DEF jobSide, instrVars, jobVars, IInv
<1>1. RoundHolds' /\ RoundIncluded' /\ JobMatchesTask'
    BY DEF RoundHolds, RoundIncluded, JobMatchesTask
<1>2. ClaimedInOrder' /\ NothingClaimedYet'
    BY DEF ClaimedInOrder, NothingClaimedYet, Waiting
<1>3. OrdinalsCounted'
    BY DEF OrdinalsCounted
<1>4. AppliedWasIncluded' /\ AppliedInOrder' /\ DrainedBeforeVerifying'
    BY DEF DeliveredFaithfully, AppliedWasIncluded, AppliedInOrder, DrainedBeforeVerifying
<1> QED
    BY <1>1, <1>2, <1>3, <1>4

(* A submission creates a pending command.                                 *)
LEMMA SubmitOK ==
    ASSUME IInv, NEW m \in Messages, Submit(m)
    PROVE  IInv'
<1> USE DEF Submit
<1>1. TypeOK'
    BY DEF IInv, TypeOK, CommandStates, instrVars, jobVars
<1>2. LoopHolds'
    BY DEF IInv, TypeOK, LoopHolds, instrVars, Idle
<1>3. CommandMatchesInstruction'
    BY DEF IInv, TypeOK, DeliveredFaithfully, CommandMatchesInstruction, instrVars
<1> QED
    BY <1>1, <1>2, <1>3, LoopFrame DEF IInv, DeliveredFaithfully, jobSide

(* The loop claims the oldest pending command.                             *)
LEMMA ClaimCommandOK ==
    ASSUME IInv, NEW m \in Messages, ClaimCommand(m)
    PROVE  IInv'
<1> USE DEF ClaimCommand
<1>1. TypeOK'
    BY DEF IInv, TypeOK, CommandStates, instrVars, jobVars
<1>2. LoopHolds'
    BY DEF IInv, TypeOK, LoopHolds, instrVars, Idle
<1>3. CommandMatchesInstruction'
    BY DEF IInv, TypeOK, DeliveredFaithfully, CommandMatchesInstruction, instrVars
<1> QED
    BY <1>1, <1>2, <1>3, LoopFrame DEF IInv, DeliveredFaithfully, jobSide

(* The outcome of the command is what append_message found.                *)
LEMMA FinishCommandOK ==
    ASSUME IInv, NEW m \in Messages, FinishCommand(m)
    PROVE  IInv'
<1> USE DEF FinishCommand
<1>1. TypeOK'
    BY DEF IInv, TypeOK, CommandStates, instrVars, jobVars
<1>2. LoopHolds'
    BY DEF IInv, TypeOK, LoopHolds, instrVars, Idle
<1>3. CommandMatchesInstruction'
    BY InstructionConstants DEF IInv, TypeOK, DeliveredFaithfully, CommandMatchesInstruction, LoopHolds, Idle, instrVars
<1> QED
    BY <1>1, <1>2, <1>3, LoopFrame DEF IInv, DeliveredFaithfully, jobSide

(* The ordinal queue_instruction_in_transaction gives is greater than every*)
(* other, and still no greater than the number of instructions.            *)
LEMMA NextOrdinalFacts ==
    ASSUME IInv, NEW m \in Messages, ordinal[m] = 0
    PROVE  LET A == {n \in Messages : ordinal[n] # 0} IN
           /\ IsFiniteSet(A) /\ Cardinality(A) \in Nat
           /\ NextOrdinal \in Nat \ {0}
           /\ \A n \in Messages : ordinal[n] < NextOrdinal
           /\ NextOrdinal <= Cardinality(A) + 1
           /\ Cardinality(A \cup {m}) = Cardinality(A) + 1
           /\ Cardinality(A) + 1 <= Cardinality(Messages)
<1> DEFINE A == {n \in Messages : ordinal[n] # 0}
           S == {ordinal[n] : n \in Messages}
<1>1. IsFiniteSet(A) /\ Cardinality(A) \in Nat /\ Cardinality(Messages) \in Nat
    BY InstructionConstants, FS_Subset, FS_CardinalityType
<1>2. ordinal \in [Messages -> Nat]
    BY <1>1 DEF IInv, TypeOK
<1>3. PICK g \in Messages : \A n \in Messages : ordinal[n] <= ordinal[g]
    BY DEF IInv, OrdinalsCounted
<1>4. Max(S) = ordinal[g]
    <2>1. ordinal[g] \in S /\ \A y \in S : ordinal[g] >= y
        BY <1>2, <1>3
    <2>2. \A x \in S : (\A y \in S : x >= y) => x = ordinal[g]
        BY <1>2, <1>3
    <2> QED
        BY <2>1, <2>2 DEF Max
<1>5. NextOrdinal = ordinal[g] + 1
    BY <1>4 DEF NextOrdinal
<1>6. NextOrdinal \in Nat \ {0} /\ (\A n \in Messages : ordinal[n] < NextOrdinal)
        /\ NextOrdinal <= Cardinality(A) + 1
    BY <1>1, <1>2, <1>3, <1>5 DEF IInv, OrdinalsCounted
<1>7. m \notin A /\ A \cup {m} \subseteq Messages
    OBVIOUS
<1>8. IsFiniteSet(A \cup {m}) /\ Cardinality(A \cup {m}) = Cardinality(A) + 1
    BY <1>1, <1>7, FS_AddElement
<1>9. Cardinality(A \cup {m}) <= Cardinality(Messages)
    BY <1>7, <1>8, InstructionConstants, FS_Subset
<1> QED
    BY <1>1, <1>6, <1>8, <1>9

(* A message is accepted: it goes to the end of the queue of a task that   *)
(* can still deliver it.                                                   *)
LEMMA AcceptOK ==
    ASSUME IInv, NEW m \in Messages,
           handling = [msg |-> m, step |-> "execute"], ordinal[m] = 0, task \in Accepting,
           instr' = [instr EXCEPT ![m] = "queued"],
           ordinal' = [ordinal EXCEPT ![m] = NextOrdinal],
           handling' = [msg |-> m, step |-> "completed"],
           UNCHANGED <<up, cmd, jobVars, faults>>
    PROVE  IInv'
<1> USE DEF jobVars
<1> DEFINE A == {n \in Messages : ordinal[n] # 0}
<1>1. /\ IsFiniteSet(A) /\ Cardinality(A) \in Nat
      /\ NextOrdinal \in Nat \ {0}
      /\ \A n \in Messages : ordinal[n] < NextOrdinal
      /\ NextOrdinal <= Cardinality(A) + 1
      /\ Cardinality(A \cup {m}) = Cardinality(A) + 1
      /\ Cardinality(A) + 1 <= Cardinality(Messages)
    BY NextOrdinalFacts
<1>2. Cardinality(Messages) \in Nat
    BY InstructionConstants, FS_CardinalityType
<1>3. TypeOK'
    BY <1>1, <1>2 DEF IInv, TypeOK, InstructionStates
<1>4. /\ ordinal'[m] = NextOrdinal /\ instr'[m] = "queued" /\ instr[m] = "none"
      /\ \A n \in Messages : n # m => ordinal'[n] = ordinal[n] /\ instr'[n] = instr[n]
    BY DEF IInv, TypeOK, DeliveredFaithfully, CommandMatchesInstruction
<1>5. \A n \in Messages : ordinal[n] \in Nat /\ ordinal'[n] \in Nat
    BY <1>1, <1>2, <1>4 DEF IInv, TypeOK
<1>6. \A i \in 1 .. Len(batch) : batch[i] \in Messages /\ batch[i] # m
    BY DEF IInv, TypeOK, RoundHolds
<1>7. RoundHolds'
    BY <1>4, <1>6 DEF IInv, RoundHolds
<1>8. ClaimedInOrder'
    BY <1>1, <1>4, <1>5 DEF IInv, ClaimedInOrder, Waiting
<1>9. RoundIncluded' /\ JobMatchesTask'
    BY DEF IInv, RoundIncluded, JobMatchesTask
<1>10. NothingClaimedYet'
    BY <1>4 DEF IInv, NothingClaimedYet
<1>11. LoopHolds'
    BY <1>1, <1>4, InstructionConstants DEF IInv, LoopHolds, Idle
<1>12. OrdinalsCounted'
    <2>1. {n \in Messages : ordinal'[n] # 0} = A \cup {m}
        BY <1>1, <1>4
    <2>2. \A n \in Messages : ordinal'[n] <= Cardinality(A) + 1
        BY <1>1, <1>4, <1>5 DEF IInv, OrdinalsCounted
    <2>3. \A n \in Messages : ordinal'[n] <= ordinal'[m]
        BY <1>1, <1>4, <1>5
    <2> QED
        BY <1>1, <2>1, <2>2, <2>3 DEF OrdinalsCounted
<1>13. AppliedWasIncluded' /\ AppliedInOrder'
    BY <1>1, <1>4, <1>5 DEF IInv, DeliveredFaithfully, AppliedWasIncluded, AppliedInOrder
<1>14. CommandMatchesInstruction'
    <2>1. cmd[m] = "claimed"
        BY InstructionConstants DEF IInv, LoopHolds, Idle
    <2> QED
        BY <1>1, <1>4, <1>5, <2>1 DEF IInv, DeliveredFaithfully, CommandMatchesInstruction
<1>15. DrainedBeforeVerifying'
    BY DEF DrainedBeforeVerifying, Accepting
<1> QED
    BY <1>3, <1>7, <1>8, <1>9, <1>10, <1>11, <1>12, <1>13, <1>14, <1>15
       DEF IInv, DeliveredFaithfully

(* append_message recognises the message of an earlier attempt, accepts a  *)
(* new one, or refuses it.                                                 *)
LEMMA ExecuteCommandOK ==
    ASSUME IInv, NEW m \in Messages, ExecuteCommand(m)
    PROVE  IInv'
<1>1. CASE ordinal[m] = 0 /\ task \in Accepting
    BY <1>1, AcceptOK DEF ExecuteCommand
<1>2. CASE ordinal[m] # 0 \/ task \notin Accepting
    <2>1. /\ handling = [msg |-> m, step |-> "execute"]
          /\ UNCHANGED <<up, cmd, instrVars, jobVars, faults>>
          /\ \/ ordinal[m] # 0 /\ handling' = [msg |-> m, step |-> "completed"]
             \/ ordinal[m] = 0 /\ handling' = [msg |-> m, step |-> "failed"]
        BY <1>2 DEF ExecuteCommand
    <2>2. TypeOK'
        BY <2>1 DEF IInv, TypeOK, instrVars, jobVars
    <2>3. LoopHolds'
        BY <2>1, InstructionConstants DEF IInv, LoopHolds, Idle, instrVars
    <2>4. CommandMatchesInstruction'
        BY <2>1 DEF IInv, DeliveredFaithfully, CommandMatchesInstruction, instrVars
    <2> QED
        BY <2>1, <2>2, <2>3, <2>4, LoopFrame DEF IInv, DeliveredFaithfully, jobSide
<1> QED
    BY <1>1, <1>2

-----------------------------------------------------------------------------
(* The job, whatever becomes of it. *)

(* A step that accepts nothing and answers no command keeps what is said   *)
(* of the two together.                                                    *)
LEMMA AcceptedFrame ==
    ASSUME IInv, UNCHANGED <<cmd, ordinal>>,
           \A m \in Messages : instr'[m] = "none" <=> instr[m] = "none"
    PROVE  OrdinalsCounted' /\ CommandMatchesInstruction'
BY DEF IInv, DeliveredFaithfully, OrdinalsCounted, CommandMatchesInstruction

(* The process may lose what it holds in memory, as long as it is not      *)
(* serving with a command in its hands.                                    *)
LEMMA LoopHoldsFrame ==
    ASSUME IInv, UNCHANGED <<cmd, ordinal>>,
           \/ UNCHANGED <<up, handling>>
           \/ handling' = Idle
    PROVE  LoopHolds'
BY InstructionConstants DEF IInv, LoopHolds, Idle

(* A step that leaves the instructions alone.                              *)
LEMMA InstructionsFrame ==
    ASSUME IInv, UNCHANGED <<instr, ordinal, cmd>>, included \subseteq included'
    PROVE  /\ OrdinalsCounted' /\ CommandMatchesInstruction'
           /\ AppliedWasIncluded' /\ AppliedInOrder'
<1>1. OrdinalsCounted' /\ CommandMatchesInstruction'
    BY AcceptedFrame
<1>2. AppliedWasIncluded' /\ AppliedInOrder'
    BY DEF IInv, DeliveredFaithfully, AppliedWasIncluded, AppliedInOrder
<1> QED
    BY <1>1, <1>2

(* A job starts with nothing in its hands.                                 *)
LEMMA StartJobOK ==
    ASSUME IInv, StartJob
    PROVE  IInv'
<1> USE DEF StartJob, commandVars, instrVars
<1>1. TypeOK'
    BY DEF IInv, TypeOK, JobPcs
<1>2. RoundHolds' /\ ClaimedInOrder' /\ RoundIncluded'
    BY DEF IInv, RoundHolds, ClaimedInOrder, RoundIncluded, Round
<1>3. JobMatchesTask' /\ NothingClaimedYet' /\ DrainedBeforeVerifying'
    BY DEF IInv, JobMatchesTask, NothingClaimedYet, Round, DeliveredFaithfully,
           DrainedBeforeVerifying
<1>4. LoopHolds'
    BY LoopHoldsFrame
<1> QED
    BY <1>1, <1>2, <1>3, <1>4, InstructionsFrame DEF IInv, DeliveredFaithfully

(* The task comes to its first round with no instruction claimed.          *)
LEMMA AdvanceOK ==
    ASSUME IInv, Advance
    PROVE  IInv'
<1> USE DEF Advance, commandVars, instrVars
<1>0. batch = << >> /\ \A m \in Messages : instr[m] \in {"none", "queued"}
    BY DEF IInv, RoundHolds, NothingClaimedYet
<1>1. TypeOK'
    BY DEF IInv, TypeOK, JobPcs, TaskStates
<1>2. RoundHolds' /\ ClaimedInOrder' /\ RoundIncluded'
    BY <1>0 DEF RoundHolds, ClaimedInOrder, RoundIncluded, Round
<1>3. JobMatchesTask' /\ NothingClaimedYet' /\ DrainedBeforeVerifying'
    BY <1>0 DEF JobMatchesTask, NothingClaimedYet, Round, DrainedBeforeVerifying
<1>4. LoopHolds'
    BY LoopHoldsFrame
<1> QED
    BY <1>1, <1>2, <1>3, <1>4, InstructionsFrame DEF IInv, DeliveredFaithfully

(* What passes the gate is recorded, or the round is given up.             *)
LEMMA ExecutionOK ==
    ASSUME IInv, ExecutionPasses \/ ExecutionFails
    PROVE  IInv'
<1> USE DEF ExecutionPasses, ExecutionFails, commandVars, instrVars
<1>0. \A i \in 1 .. Len(batch) : batch[i] \in Messages
    BY DEF IInv, TypeOK
<1>1. TypeOK'
    BY <1>0 DEF IInv, TypeOK, JobPcs
<1>2. RoundHolds' /\ ClaimedInOrder' /\ RoundIncluded'
    BY DEF IInv, RoundHolds, ClaimedInOrder, RoundIncluded, Round, Waiting
<1>3. JobMatchesTask' /\ NothingClaimedYet' /\ DrainedBeforeVerifying'
    BY DEF IInv, JobMatchesTask, NothingClaimedYet, Round, DeliveredFaithfully,
           DrainedBeforeVerifying
<1>4. LoopHolds'
    BY LoopHoldsFrame
<1> QED
    BY <1>1, <1>2, <1>3, <1>4, InstructionsFrame DEF IInv, DeliveredFaithfully

(* The task goes on to verification only with every instruction applied,   *)
(* and to another round with none claimed.                                 *)
LEMMA DrainOK ==
    ASSUME IInv, Drain
    PROVE  IInv'
<1> USE DEF Drain, commandVars, instrVars
<1>1. TypeOK'
    BY DEF IInv, TypeOK, JobPcs, TaskStates
<1>2. RoundHolds' /\ ClaimedInOrder' /\ RoundIncluded'
    BY DEF IInv, RoundHolds, ClaimedInOrder, RoundIncluded, Round, Waiting
<1>3. JobMatchesTask' /\ NothingClaimedYet'
    BY DEF IInv, JobMatchesTask, NothingClaimedYet, Round
<1>4. DrainedBeforeVerifying'
    BY DEF IInv, TypeOK, InstructionStates, DrainedBeforeVerifying, Pending
<1>5. LoopHolds'
    BY LoopHoldsFrame
<1> QED
    BY <1>1, <1>2, <1>3, <1>4, <1>5, InstructionsFrame DEF IInv, DeliveredFaithfully

(* The job ends, or dies by a lost claim or with its process, with empty   *)
(* hands; a task that has not run is queued again.                         *)
LEMMA JobEndsOK ==
    ASSUME IInv, EndTask \/ LoseClaim \/ ReapError \/ Crash \/ Requeue
    PROVE  IInv'
<1> USE DEF EndTask, LoseClaim, ReapError, Crash, Requeue, commandVars, instrVars
<1>1. TypeOK'
    <2>1. faults' \in 0 .. MaxFaults
        BY InstructionConstants DEF IInv, TypeOK
    <2>2. UNCHANGED <<cmd, instr, ordinal, included>> /\ (batch' = << >> \/ UNCHANGED batch)
        OBVIOUS
    <2>5. batch' \in Seq(Messages)
        <3>1. << >> \in Seq(Messages)
            OBVIOUS
        <3> QED
            BY <2>2, <3>1 DEF IInv, TypeOK
    <2>3. up' \in BOOLEAN /\ (handling' = Idle \/ UNCHANGED handling)
        BY DEF IInv, TypeOK
    <2>4. task' \in TaskStates /\ job' \in JobPcs
        BY DEF IInv, TypeOK, TaskStates, JobPcs
    <2> QED
        BY <2>1, <2>2, <2>5, <2>3, <2>4 DEF IInv, TypeOK
<1>2. batch' = << >> /\ job' \in {"none", "err"}
    BY DEF IInv, RoundHolds
<1>3. RoundHolds' /\ ClaimedInOrder' /\ RoundIncluded'
    BY <1>2 DEF RoundHolds, ClaimedInOrder, RoundIncluded, Round
<1>4. JobMatchesTask' /\ NothingClaimedYet' /\ DrainedBeforeVerifying'
    BY DEF IInv, JobMatchesTask, NothingClaimedYet, Round, DeliveredFaithfully,
           DrainedBeforeVerifying
<1>5. LoopHolds'
    BY LoopHoldsFrame DEF IInv, LoopHolds
<1> QED
    BY <1>1, <1>3, <1>4, <1>5, InstructionsFrame DEF IInv, DeliveredFaithfully

(* A restart requeues commands, and nothing else.                          *)
LEMMA RestartOK ==
    ASSUME IInv, Restart
    PROVE  IInv'
<1> USE DEF Restart
<1>1. TypeOK'
    BY DEF IInv, TypeOK, CommandStates, instrVars, jobVars
<1>2. LoopHolds'
    BY InstructionConstants DEF IInv, LoopHolds, Idle, instrVars
<1>3. CommandMatchesInstruction'
    BY DEF IInv, TypeOK, DeliveredFaithfully, CommandMatchesInstruction, instrVars
<1> QED
    BY <1>1, <1>2, <1>3, LoopFrame DEF IInv, DeliveredFaithfully, jobSide

(* The instruction of the least ordinal among those that wait joins the    *)
(* round behind those already claimed.                                     *)
LEMMA CollectOneOK ==
    ASSUME IInv, NEW m \in Messages, job = "collect", Waiting(m),
           \A n \in Messages : Waiting(n) => ordinal[m] <= ordinal[n],
           instr' = [instr EXCEPT ![m] = "applying"],
           batch' = Append(batch, m),
           UNCHANGED <<up, commandVars, ordinal, task, job, included, faults>>
    PROVE  IInv'
<1> USE DEF commandVars
<1>1. TypeOK'
    <2>1. batch' \in Seq(Messages)
        BY DEF IInv, TypeOK
    <2> QED
        BY <2>1 DEF IInv, TypeOK, InstructionStates
<1>2. /\ instr'[m] = "applying" /\ instr[m] \in {"queued", "interrupted"}
      /\ \A n \in Messages : n # m => instr'[n] = instr[n]
    BY DEF IInv, TypeOK, Waiting
<1>3. /\ Len(batch) \in Nat /\ Len(batch') = Len(batch) + 1
      /\ batch'[Len(batch) + 1] = m
      /\ \A i \in 1 .. Len(batch) : batch'[i] = batch[i] /\ batch[i] \in Messages
    BY DEF IInv, TypeOK
<1>4. /\ \A n \in Messages : ordinal[n] \in Nat
      /\ ordinal[m] # 0
      /\ \A n \in Messages : ordinal[n] = ordinal[m] => n = m
    <2>1. Cardinality(Messages) \in Nat
        BY InstructionConstants, FS_CardinalityType
    <2> QED
        BY <2>1, <1>2 DEF IInv, TypeOK, DeliveredFaithfully, CommandMatchesInstruction
<1>5. \A n \in Messages : instr[n] = "applying" => ordinal[n] < ordinal[m]
    <2> SUFFICES ASSUME NEW n \in Messages, instr[n] = "applying", ~ (ordinal[n] < ordinal[m])
                 PROVE  FALSE
        OBVIOUS
    <2>1. n # m
        BY <1>2
    <2>2. ordinal[m] < ordinal[n]
        BY <1>4, <2>1
    <2> QED
        BY <2>2, <1>4 DEF IInv, ClaimedInOrder, Round
<1>6. \A i \in 1 .. Len(batch) : instr[batch[i]] = "applying" /\ batch[i] # m
    BY <1>2, <1>3 DEF IInv, RoundHolds, Round
<1>7. RoundHolds'
    <2>1. \A i \in 1 .. Len(batch') : i \in 1 .. Len(batch) \/ i = Len(batch) + 1
        BY <1>3
    <2>2. \A n \in Messages :
            instr'[n] = "applying" <=> \E i \in 1 .. Len(batch') : batch'[i] = n
        <3> SUFFICES ASSUME NEW n \in Messages
                     PROVE  instr'[n] = "applying" <=> \E i \in 1 .. Len(batch') : batch'[i] = n
            OBVIOUS
        <3>1. CASE n = m
            <4>1. Len(batch) + 1 \in 1 .. Len(batch')
                BY <1>3
            <4> QED
                BY <3>1, <4>1, <1>2, <1>3
        <3>2. CASE n # m
            <4>1. instr[n] = "applying" <=> \E i \in 1 .. Len(batch) : batch[i] = n
                BY DEF IInv, RoundHolds, Round
            <4>2. \A i \in 1 .. Len(batch) : i \in 1 .. Len(batch')
                BY <1>3
            <4>3. (\E i \in 1 .. Len(batch) : batch[i] = n)
                    <=> \E i \in 1 .. Len(batch') : batch'[i] = n
                BY <3>2, <4>2, <2>1, <1>3
            <4> QED
                BY <3>2, <4>1, <4>3, <1>2
        <3> QED
            BY <3>1, <3>2
    <2>3. \A i \in 1 .. Len(batch') : ordinal[batch'[i]] # 0
        BY <2>1, <1>3, <1>4 DEF IInv, RoundHolds
    <2>4. \A i, j \in 1 .. Len(batch') : i < j => ordinal[batch'[i]] < ordinal[batch'[j]]
        <3> SUFFICES ASSUME NEW i \in 1 .. Len(batch'), NEW j \in 1 .. Len(batch'), i < j
                     PROVE  ordinal[batch'[i]] < ordinal[batch'[j]]
            OBVIOUS
        <3>1. i \in 1 .. Len(batch)
            BY <1>3
        <3>2. CASE j = Len(batch) + 1
            BY <3>1, <3>2, <1>3, <1>5, <1>6
        <3>3. CASE j \in 1 .. Len(batch)
            BY <3>1, <3>3, <1>3 DEF IInv, RoundHolds
        <3> QED
            BY <2>1, <3>2, <3>3
    <2> QED
        BY <2>2, <2>3, <2>4 DEF RoundHolds
<1>8. ClaimedInOrder'
    BY <1>2, <1>4, <1>5 DEF IInv, ClaimedInOrder, Waiting, Round
<1>9. RoundIncluded' /\ JobMatchesTask'
    BY DEF IInv, RoundIncluded, JobMatchesTask
<1>10. NothingClaimedYet' /\ DrainedBeforeVerifying'
    BY DEF IInv, JobMatchesTask, Round, NothingClaimedYet, DrainedBeforeVerifying
<1>11. LoopHolds' /\ OrdinalsCounted' /\ CommandMatchesInstruction'
    BY <1>2, AcceptedFrame, LoopHoldsFrame
<1>12. AppliedWasIncluded' /\ AppliedInOrder'
    BY <1>2, <1>4 DEF IInv, DeliveredFaithfully, AppliedWasIncluded, AppliedInOrder
<1> QED
    BY <1>1, <1>7, <1>8, <1>9, <1>10, <1>11, <1>12 DEF IInv, DeliveredFaithfully

(* The round is closed when nothing waits.                                 *)
LEMMA CollectOK ==
    ASSUME IInv, Collect
    PROVE  IInv'
<1>1. CASE job' = "execute"
    <2> USE <1>1 DEF Collect, commandVars
    <2>0. UNCHANGED <<up, cmd, handling, instr, ordinal, task, batch, included, faults>> /\ job = "collect"
        OBVIOUS
    <2>1. TypeOK'
        BY <2>0 DEF IInv, TypeOK, JobPcs
    <2>2. RoundHolds' /\ ClaimedInOrder' /\ RoundIncluded'
        BY <2>0 DEF IInv, RoundHolds, ClaimedInOrder, RoundIncluded, Round, Waiting
    <2>3. JobMatchesTask' /\ NothingClaimedYet' /\ DrainedBeforeVerifying'
        BY <2>0 DEF IInv, JobMatchesTask, NothingClaimedYet, Round, DeliveredFaithfully,
               DrainedBeforeVerifying
    <2>4. LoopHolds'
        BY <2>0, LoopHoldsFrame
    <2> QED
        BY <2>0, <2>1, <2>2, <2>3, <2>4, InstructionsFrame DEF IInv, DeliveredFaithfully
<1>2. CASE job' # "execute"
    <2>1. PICK m \in Messages :
            /\ Waiting(m)
            /\ \A n \in Messages : Waiting(n) => ordinal[m] <= ordinal[n]
            /\ instr' = [instr EXCEPT ![m] = "applying"]
            /\ batch' = Append(batch, m)
            /\ UNCHANGED job
        BY <1>2 DEF Collect
    <2>2. job = "collect" /\ UNCHANGED <<up, commandVars, ordinal, task, included, faults>>
        BY DEF Collect
    <2> QED
        BY <2>1, <2>2, CollectOneOK
<1> QED
    BY <1>1, <1>2

(* The first instruction of the round is settled: the others keep their    *)
(* order, and every one accepted before it has been applied already.       *)
LEMMA FinishOneOK ==
    ASSUME IInv, job \in {"apply", "interrupt"}, batch # << >>,
           instr[Head(batch)] = "applying",
           instr' = [instr EXCEPT ![Head(batch)] =
                        IF job = "apply" THEN "applied" ELSE "interrupted"],
           batch' = Tail(batch),
           UNCHANGED <<up, commandVars, ordinal, task, job, included, faults>>
    PROVE  IInv'
<1> USE DEF commandVars
<1> DEFINE h == Head(batch)
<1>1. /\ Len(batch) \in Nat /\ Len(batch) > 0
      /\ h = batch[1] /\ h \in Messages
      /\ batch' \in Seq(Messages)
      /\ Len(batch') = Len(batch) - 1
      /\ \A i \in 1 .. Len(batch') : batch'[i] = batch[i + 1]
      /\ \A i \in 1 .. Len(batch) : batch[i] \in Messages
    BY DEF IInv, TypeOK
<1>2. TypeOK'
    BY <1>1 DEF IInv, TypeOK, InstructionStates
<1>3. /\ instr'[h] = IF job = "apply" THEN "applied" ELSE "interrupted"
      /\ \A n \in Messages : n # h => instr'[n] = instr[n]
    BY <1>1 DEF IInv, TypeOK
<1>4. \A n \in Messages : ordinal[n] \in Nat
    <2>1. Cardinality(Messages) \in Nat
        BY InstructionConstants, FS_CardinalityType
    <2> QED
        BY <2>1 DEF IInv, TypeOK
<1>5. /\ 1 \in 1 .. Len(batch)
      /\ \A i \in 1 .. Len(batch') : i + 1 \in 1 .. Len(batch)
      /\ \A i \in 1 .. Len(batch) : i # 1 => i - 1 \in 1 .. Len(batch') /\ (i - 1) + 1 = i
    BY <1>1
<1>6. \A i \in 1 .. Len(batch) : i # 1 => ordinal[h] < ordinal[batch[i]]
    BY <1>1, <1>5 DEF IInv, RoundHolds
<1>7. RoundHolds'
    <2>1. \A i \in 1 .. Len(batch') : ordinal[batch'[i]] # 0
        BY <1>1, <1>5 DEF IInv, RoundHolds
    <2>2. \A i, j \in 1 .. Len(batch') : i < j => ordinal[batch'[i]] < ordinal[batch'[j]]
        <3> SUFFICES ASSUME NEW i \in 1 .. Len(batch'), NEW j \in 1 .. Len(batch'), i < j
                     PROVE  ordinal[batch'[i]] < ordinal[batch'[j]]
            OBVIOUS
        <3>1. i + 1 \in 1 .. Len(batch) /\ j + 1 \in 1 .. Len(batch) /\ i + 1 < j + 1
            BY <1>5
        <3> QED
            BY <3>1, <1>1 DEF IInv, RoundHolds
    <2>3. ASSUME job = "apply", NEW n \in Messages
          PROVE  instr'[n] = "applying" <=> \E i \in 1 .. Len(batch') : batch'[i] = n
        <3>1. instr[n] = "applying" <=> \E i \in 1 .. Len(batch) : batch[i] = n
            BY <2>3 DEF IInv, RoundHolds, Round
        <3>2. CASE n = h
            <4>1. \A i \in 1 .. Len(batch') : ordinal[h] < ordinal[batch'[i]]
                BY <1>1, <1>5, <1>6
            <4> QED
                BY <3>2, <4>1, <2>3, <1>3, <1>4, <1>1
        <3>3. CASE n # h
            <4>1. (\E i \in 1 .. Len(batch) : batch[i] = n)
                    <=> \E i \in 1 .. Len(batch') : batch'[i] = n
                <5>1. ASSUME NEW i \in 1 .. Len(batch), batch[i] = n
                      PROVE  \E k \in 1 .. Len(batch') : batch'[k] = n
                    <6>1. i # 1
                        BY <5>1, <3>3, <1>1
                    <6>2. i - 1 \in 1 .. Len(batch') /\ batch'[i - 1] = n
                        BY <6>1, <5>1, <1>5, <1>1
                    <6> QED
                        BY <6>2
                <5>2. ASSUME NEW i \in 1 .. Len(batch'), batch'[i] = n
                      PROVE  \E k \in 1 .. Len(batch) : batch[k] = n
                    BY <5>2, <1>1, <1>5
                <5> QED
                    BY <5>1, <5>2
            <4> QED
                BY <3>1, <3>3, <4>1, <1>3
        <3> QED
            BY <3>2, <3>3
    <2>4. job \in Round => job = "apply"
        BY DEF Round
    <2> QED
        BY <2>1, <2>2, <2>3, <2>4 DEF RoundHolds
<1>8. ClaimedInOrder'
    BY <1>1, <1>3 DEF IInv, ClaimedInOrder, Waiting, Round
<1>9. RoundIncluded'
    BY <1>1, <1>5 DEF IInv, RoundIncluded
<1>10. JobMatchesTask' /\ NothingClaimedYet' /\ DrainedBeforeVerifying'
    BY DEF IInv, JobMatchesTask, Round, NothingClaimedYet, DrainedBeforeVerifying
<1>11. LoopHolds' /\ OrdinalsCounted' /\ CommandMatchesInstruction'
    BY <1>3, <1>1, AcceptedFrame, LoopHoldsFrame
<1>12. AppliedWasIncluded'
    BY <1>1, <1>3, <1>5 DEF IInv, DeliveredFaithfully, AppliedWasIncluded, RoundIncluded
<1>13. AppliedInOrder'
    <2> SUFFICES ASSUME NEW m \in Messages, NEW n \in Messages,
                        ordinal[m] # 0, ordinal[m] < ordinal[n], instr'[n] = "applied"
                 PROVE  instr'[m] = "applied"
        BY DEF AppliedInOrder
    <2>1. CASE n # h
        <3>1. instr[m] = "applied"
            BY <2>1, <1>3 DEF IInv, DeliveredFaithfully, AppliedInOrder
        <3> QED
            BY <3>1, <1>3
    <2>2. CASE n = h
        <3>1. job = "apply" /\ m # h
            BY <2>2, <1>3, <1>4
        <3>2. ~ Waiting(m)
            BY <2>2, <3>1 DEF IInv, ClaimedInOrder, Round
        <3>3. instr[m] # "none"
            BY DEF IInv, DeliveredFaithfully, CommandMatchesInstruction
        <3>4. instr[m] # "applying"
            <4>1. instr[m] = "applying" => \E i \in 1 .. Len(batch) : batch[i] = m
                BY <3>1 DEF IInv, RoundHolds, Round
            <4>2. \A i \in 1 .. Len(batch) : batch[i] # m
                BY <2>2, <3>1, <1>1, <1>4, <1>6
            <4> QED
                BY <4>1, <4>2
        <3>5. instr[m] = "applied"
            BY <3>2, <3>3, <3>4 DEF IInv, TypeOK, InstructionStates, Waiting
        <3> QED
            BY <3>1, <3>5, <1>3
    <2> QED
        BY <2>1, <2>2
<1> QED
    BY <1>2, <1>7, <1>8, <1>9, <1>10, <1>11, <1>12, <1>13 DEF IInv, DeliveredFaithfully

(* finish_instructions settles the round one by one, then leaves it.       *)
LEMMA FinishInstructionsOK ==
    ASSUME IInv, FinishInstructions
    PROVE  IInv'
<1>1. CASE batch # << >>
    <2>1. /\ job \in {"apply", "interrupt"} /\ instr[Head(batch)] = "applying"
          /\ instr' = [instr EXCEPT ![Head(batch)] =
                          IF job = "apply" THEN "applied" ELSE "interrupted"]
          /\ batch' = Tail(batch)
          /\ UNCHANGED <<up, commandVars, ordinal, task, job, included, faults>>
        BY <1>1 DEF FinishInstructions
    <2> QED
        BY <1>1, <2>1, FinishOneOK
<1>2. CASE batch = << >>
    <2> USE DEF commandVars
    <2>0. /\ UNCHANGED <<up, cmd, handling, instr, ordinal, task, batch, included, faults>>
          /\ \/ job = "apply" /\ job' = "drain"
             \/ job = "interrupt" /\ job' = "failing"
        BY <1>2 DEF FinishInstructions
    <2>1. TypeOK'
        BY <2>0 DEF IInv, TypeOK, JobPcs
    <2>2. RoundHolds' /\ ClaimedInOrder' /\ RoundIncluded'
        BY <2>0, <1>2 DEF IInv, RoundHolds, ClaimedInOrder, RoundIncluded, Round, Waiting
    <2>3. JobMatchesTask' /\ NothingClaimedYet' /\ DrainedBeforeVerifying'
        BY <2>0 DEF IInv, JobMatchesTask, NothingClaimedYet, Round, DeliveredFaithfully,
               DrainedBeforeVerifying
    <2>4. LoopHolds'
        BY <2>0, LoopHoldsFrame
    <2> QED
        BY <2>0, <2>1, <2>2, <2>3, <2>4, InstructionsFrame DEF IInv, DeliveredFaithfully
<1> QED
    BY <1>1, <1>2

-----------------------------------------------------------------------------
(* Every step. *)

(* A step that changes nothing.                                            *)
LEMMA StutterOK ==
    ASSUME IInv, UNCHANGED vars
    PROVE  IInv'
<1> USE DEF vars
<1>1. TypeOK'
    BY DEF IInv, TypeOK
<1>2. LoopHolds' /\ CommandMatchesInstruction'
    BY DEF IInv, LoopHolds, DeliveredFaithfully, CommandMatchesInstruction
<1> QED
    BY <1>1, <1>2, LoopFrame DEF IInv, DeliveredFaithfully, jobSide, instrVars, jobVars

(* IInv is inductive.                                                      *)
LEMMA StepOK ==
    IInv /\ [Next /\ UNCHANGED skew]_<<vars, skew>> => IInv'
<1> SUFFICES ASSUME IInv, [Next /\ UNCHANGED skew]_<<vars, skew>>
             PROVE  IInv'
    OBVIOUS
<1>1. CASE LoopStep
    BY <1>1, ClaimCommandOK, ExecuteCommandOK, FinishCommandOK DEF LoopStep
<1>2. CASE JobStep
    BY <1>2, StartJobOK, AdvanceOK, CollectOK, FinishInstructionsOK, DrainOK, JobEndsOK,
       ExecutionOK DEF JobStep
<1>3. CASE LoseClaim \/ Crash \/ Requeue
    BY <1>3, JobEndsOK
<1>4. CASE Restart
    BY <1>4, RestartOK
<1>5. CASE \E m \in Messages : Submit(m)
    BY <1>5, SubmitOK
<1>6. CASE UNCHANGED <<vars, skew>>
    BY <1>6, StutterOK
<1> QED
    BY <1>1, <1>2, <1>3, <1>4, <1>5, <1>6 DEF Next

(* The inductive invariant holds, with any number of messages and faults,  *)
(* whatever the clock does.                                                *)
THEOREM DeliveryInvariant == Spec => []IInv
<1>1. Init => IInv
    BY InitOK
<1>2. IInv /\ [Next /\ UNCHANGED skew]_<<vars, skew>> => IInv'
    BY StepOK
<1> QED
    BY <1>1, <1>2, PTL DEF Spec

(* The tables and the memory of the process stay well formed.              *)
THEOREM TypeCorrect == Spec => []TypeOK
<1>1. IInv => TypeOK
    BY DEF IInv
<1> QED
    BY <1>1, DeliveryInvariant, PTL

(* What a client was told, what was accepted and what was applied agree,   *)
(* in order, and nothing accepted is left when the task is verified        *)
(* (records.rs transition_running_to_verifying_if_instructions_drained,    *)
(* execution.rs finish_instructions, commands.rs append_message).          *)
THEOREM FaithfulDelivery == Spec => []DeliveredFaithfully
<1>1. IInv => DeliveredFaithfully
    BY DEF IInv
<1> QED
    BY <1>1, DeliveryInvariant, PTL

(* One step never moves an accepted instruction, nor takes back one that   *)
(* was applied.                                                            *)
LEMMA StepAccepts ==
    IInv /\ [Next /\ UNCHANGED skew]_<<vars, skew>> =>
        [\A m \in Messages : ordinal[m] # 0 =>
            /\ ordinal'[m] = ordinal[m]
            /\ instr[m] = "applied" => instr'[m] = "applied"]_vars
<1> SUFFICES ASSUME IInv, Next, NEW m \in Messages, ordinal[m] # 0
             PROVE  /\ ordinal'[m] = ordinal[m]
                    /\ instr[m] = "applied" => instr'[m] = "applied"
    BY DEF vars
<1>1. CASE LoopStep
    <2>1. CASE UNCHANGED instrVars
        BY <2>1 DEF instrVars
    <2>2. CASE ~ UNCHANGED instrVars
        <3>1. PICK n \in Messages : ExecuteCommand(n)
            BY <1>1, <2>2 DEF LoopStep, ClaimCommand, FinishCommand
        <3>2. /\ ordinal[n] = 0
              /\ instr' = [instr EXCEPT ![n] = "queued"]
              /\ ordinal' = [ordinal EXCEPT ![n] = NextOrdinal]
            BY <3>1, <2>2 DEF ExecuteCommand
        <3> QED
            BY <3>2 DEF IInv, TypeOK
    <2> QED
        BY <2>1, <2>2
<1>2. CASE Collect
    BY <1>2 DEF Collect, Waiting, IInv, TypeOK
<1>3. CASE FinishInstructions
    <2>1. CASE batch = << >>
        BY <1>3, <2>1 DEF FinishInstructions
    <2>2. CASE batch # << >>
        <3>1. /\ UNCHANGED ordinal /\ instr[Head(batch)] = "applying"
              /\ instr' = [instr EXCEPT ![Head(batch)] =
                              IF job = "apply" THEN "applied" ELSE "interrupted"]
            BY <1>3, <2>2 DEF FinishInstructions
        <3> QED
            BY <3>1 DEF IInv, TypeOK
    <2> QED
        BY <2>1, <2>2
<1>4. CASE \/ StartJob \/ Advance \/ Drain \/ EndTask \/ ExecutionPasses \/ ExecutionFails
          \/ ReapError \/ LoseClaim \/ Crash \/ Restart \/ Requeue
          \/ \E n \in Messages : Submit(n)
    BY <1>4 DEF StartJob, Advance, Drain, EndTask, ExecutionPasses, ExecutionFails, ReapError,
                LoseClaim, Crash, Restart, Requeue, Submit, instrVars
<1> QED
    BY <1>1, <1>2, <1>3, <1>4 DEF Next, JobStep

(* However often a command is replayed, after a crash or by its client,    *)
(* its instruction keeps the place it was given first, and stays applied   *)
(* once it is (commands.rs append_message, instructions.rs).               *)
THEOREM NeverAcceptedTwice == Spec => AcceptedOnce
<1>1. IInv /\ [Next /\ UNCHANGED skew]_<<vars, skew>> =>
        [\A m \in Messages : ordinal[m] # 0 =>
            /\ ordinal'[m] = ordinal[m]
            /\ instr[m] = "applied" => instr'[m] = "applied"]_vars
    BY StepAccepts
<1> QED
    BY <1>1, DeliveryInvariant, PTL DEF Spec, AcceptedOnce

-----------------------------------------------------------------------------
(* The run of a provider: the variables of WorkerRun and its limits.       *)
CONSTANTS BusCap, QueueCap, MaxForwarded, MaxFrames
VARIABLES proc, bus, drive, run, exec, cancelled, history

Run == INSTANCE WorkerRun WITH job <- run


(* A sequence behind its first element, and with one appended. *)
LEMMA TailFacts ==
    ASSUME NEW S, NEW q \in Seq(S), q # << >>
    PROVE  /\ Len(q) > 0 /\ Len(q) \in Nat /\ Head(q) = q[1] /\ q[1] \in S
           /\ Tail(q) \in Seq(S) /\ Len(Tail(q)) = Len(q) - 1
           /\ DOMAIN Tail(q) = 1 .. Len(q) - 1 /\ DOMAIN q = 1 .. Len(q)
           /\ \A i \in 1 .. Len(q) - 1 : Tail(q)[i] = q[i + 1]
OBVIOUS

(* A sequence with one element appended. *)
LEMMA AppendFacts ==
    ASSUME NEW S, NEW q \in Seq(S), NEW e \in S
    PROVE  /\ Append(q, e) \in Seq(S) /\ Len(Append(q, e)) = Len(q) + 1 /\ Len(q) \in Nat
           /\ DOMAIN Append(q, e) = 1 .. Len(q) + 1 /\ DOMAIN q = 1 .. Len(q)
           /\ \A i \in 1 .. Len(q) : Append(q, e)[i] = q[i]
           /\ Append(q, e)[Len(q) + 1] = e
           /\ Append(q, e) # << >>
OBVIOUS

(* The records of the job that try_send leaves. *)
LEMMA JobRecords ==
    ASSUME NEW j \in Run!JobRecord, NEW n \in Nat, NEW m \in Nat, NEW q \in Seq(Run!Events)
    PROVE  /\ [j EXCEPT !.dropped = n, !.loss = TRUE, !.cancel = TRUE,
                        !.forwarded = m, !.limited = TRUE] \in Run!JobRecord
           /\ [j EXCEPT !.dropped = n, !.loss = TRUE, !.cancel = TRUE,
                        !.forwarded = m] \in Run!JobRecord
           /\ [j EXCEPT !.dropped = n, !.loss = TRUE, !.cancel = TRUE] \in Run!JobRecord
           /\ [j EXCEPT !.queue = q, !.forwarded = m] \in Run!JobRecord
           /\ [j EXCEPT !.queue = q] \in Run!JobRecord
BY DEF Run!JobRecord

(* try_send queues the event, or the loss is recorded. *)
LEMMA TrySendFacts ==
    ASSUME Run!RunConstants, NEW j \in Run!JobRecord, NEW e \in Run!Events,
           j.limited \/ j.dropped > 0 => j.loss
    PROVE  /\ Run!TrySend(j, e) \in Run!JobRecord
           /\ Run!TrySend(j, e).result = j.result
           /\ Run!TrySend(j, e).limited \/ Run!TrySend(j, e).dropped > 0 => Run!TrySend(j, e).loss
           /\ Run!TrySend(j, e).cancel => j.cancel \/ Run!TrySend(j, e).loss
           /\ \/ Run!TrySend(j, e).loss /\ Run!TrySend(j, e).queue = j.queue
              \/ /\ ~ Run!TrySend(j, e).loss /\ ~ j.loss
                 /\ Run!TrySend(j, e).queue = Append(j.queue, e)
<1>1. j.queue \in Seq(Run!Events) /\ Append(j.queue, e) \in Seq(Run!Events)
    BY AppendFacts DEF Run!JobRecord
<1>0. j.dropped + 1 \in Nat /\ j.forwarded + 1 \in Nat
    BY DEF Run!JobRecord
<1>2. CASE j.loss \/ j.limited
    BY <1>1, <1>2 DEF Run!TrySend, Run!JobRecord
<1>3. CASE ~(j.loss \/ j.limited) /\ j.forwarded >= MaxForwarded
    <2> DEFINE t == [j EXCEPT !.dropped = j.dropped + 1, !.loss = TRUE, !.cancel = TRUE,
                              !.forwarded = j.forwarded + 1, !.limited = TRUE]
    <2>1. Run!TrySend(j, e) = t
        BY <1>3 DEF Run!TrySend, Run!AddDropped, Run!JobRecord
    <2>2. t \in Run!JobRecord
        BY <1>0, <1>1, JobRecords
    <2>3. t.loss /\ t.queue = j.queue /\ t.result = j.result
        BY DEF Run!JobRecord
    <2> QED
        BY <2>1, <2>2, <2>3
<1>4. CASE ~(j.loss \/ j.limited) /\ ~(j.forwarded >= MaxForwarded) /\ Len(j.queue) >= QueueCap
    <2> DEFINE t == [j EXCEPT !.dropped = j.dropped + 1, !.loss = TRUE, !.cancel = TRUE,
                              !.forwarded = j.forwarded + 1]
    <2>1. Run!TrySend(j, e) = t
        BY <1>4 DEF Run!TrySend, Run!AddDropped, Run!JobRecord
    <2>2. t \in Run!JobRecord
        BY <1>0, <1>1, JobRecords
    <2>3. t.loss /\ t.queue = j.queue /\ t.result = j.result
        BY DEF Run!JobRecord
    <2> QED
        BY <2>1, <2>2, <2>3
<1>5. CASE ~(j.loss \/ j.limited) /\ ~(j.forwarded >= MaxForwarded) /\ ~(Len(j.queue) >= QueueCap)
    <2> DEFINE t == [j EXCEPT !.queue = Append(j.queue, e), !.forwarded = j.forwarded + 1]
    <2>1. Run!TrySend(j, e) = t
        BY <1>5 DEF Run!TrySend
    <2>2. t \in Run!JobRecord
        BY <1>0, <1>1, JobRecords
    <2>3. /\ t.loss = j.loss /\ t.queue = Append(j.queue, e) /\ t.result = j.result
          /\ t.limited = j.limited /\ t.dropped = j.dropped /\ t.cancel = j.cancel
        BY DEF Run!JobRecord
    <2> QED
        BY <1>5, <2>1, <2>2, <2>3
<1> QED
    BY <1>2, <1>3, <1>4, <1>5

(* Forwarded is what its name says. *)
LEMMA ForwardedFacts ==
    ASSUME Run!RunConstants, NEW j \in Run!JobRecord, NEW e \in Run!Events,
           j.limited \/ j.dropped > 0 => j.loss
    PROVE  ~ Run!Forwarded(j, e) => Run!TrySend(j, e).loss
<1>1. Run!TrySend(j, e).queue = Append(j.queue, e) => Len(Run!TrySend(j, e).queue) > Len(j.queue)
    BY AppendFacts DEF Run!JobRecord
<1> QED
    BY <1>1, TrySendFacts DEF Run!Forwarded

(* broadcast::Sender::send keeps the event it is given. *)
LEMMA PublishFacts ==
    ASSUME Run!RunConstants, NEW b \in [events : Seq(Run!BusEvents), lagged : Nat], NEW e \in Run!BusEvents
    PROVE  /\ Run!Publish(b, e) \in [events : Seq(Run!BusEvents), lagged : Nat]
           /\ \/ /\ Run!Publish(b, e).lagged = b.lagged
                 /\ Run!Publish(b, e).events = Append(b.events, e)
              \/ /\ b.events # << >> /\ Run!Publish(b, e).lagged > 0
                 /\ Run!Publish(b, e).events = Append(Tail(b.events), e)
<1>1. b.events \in Seq(Run!BusEvents) /\ b.lagged \in Nat
    OBVIOUS
<1>2. CASE Len(b.events) < BusCap
    BY <1>1, <1>2, AppendFacts DEF Run!Publish
<1>3. CASE ~(Len(b.events) < BusCap)
    <2>1. b.events # << >>
        BY <1>1, <1>3 DEF Run!RunConstants
    <2>2. Tail(b.events) \in Seq(Run!BusEvents)
        BY <1>1, <2>1, TailFacts
    <2>3. Append(Tail(b.events), e) \in Seq(Run!BusEvents)
        BY <2>2, AppendFacts
    <2> QED
        BY <1>1, <1>3, <2>1, <2>3 DEF Run!Publish
<1> QED
    BY <1>2, <1>3

(* What the receiver of the broadcast channel takes. *)
LEMMA TakenFacts ==
    ASSUME Run!TypeOK, Run!BusReady
    PROVE  /\ Run!Taken \in [events : Seq(Run!BusEvents), lagged : Nat]
           /\ bus.lagged > 0 => Run!NextEvent = "frames_dropped" /\ Run!Taken.events = bus.events
           /\ bus.lagged = 0 => /\ bus.events # << >> /\ Run!NextEvent = Head(bus.events)
                                /\ Run!Taken.events = Tail(bus.events)
           /\ Run!Taken.lagged = 0
           /\ Run!Lost \in Nat \ {0}
<1>1. bus.events \in Seq(Run!BusEvents) /\ bus.lagged \in Nat
    BY DEF Run!TypeOK
<1>2. bus.events # << >> => Tail(bus.events) \in Seq(Run!BusEvents)
    BY <1>1, TailFacts
<1>3. CASE bus.lagged > 0
    <2>1. Run!Taken = [bus EXCEPT !.lagged = 0] /\ Run!NextEvent = "frames_dropped" /\ Run!Lost = bus.lagged
        BY <1>3 DEF Run!Taken, Run!NextEvent, Run!Lost
    <2> QED
        BY <1>1, <1>3, <2>1 DEF Run!TypeOK
<1>4. CASE ~(bus.lagged > 0)
    <2>1. Run!Taken = [bus EXCEPT !.events = Tail(bus.events)] /\ Run!NextEvent = Head(bus.events) /\ Run!Lost = 1
        BY <1>4 DEF Run!Taken, Run!NextEvent, Run!Lost
    <2> QED
        <3>1. bus.lagged = 0 /\ bus.events # << >>
            BY <1>1, <1>4 DEF Run!BusReady
        <3>2. Run!Taken.events = Tail(bus.events) /\ Run!Taken.lagged = 0
            BY <1>1, <2>1, <3>1 DEF Run!TypeOK
        <3>3. Run!Taken \in [events : Seq(Run!BusEvents), lagged : Nat]
            BY <1>2, <2>1, <3>1 DEF Run!TypeOK
        <3> QED
            BY <2>1, <3>1, <3>2, <3>3
<1> QED
    BY <1>3, <1>4

-----------------------------------------------------------------------------
(* The queue to the executor. *)

(* An event that is queued is heard. *)
LEMMA QueueAppended ==
    ASSUME Run!TypeOK, NEW e \in Run!Events \ {"fallback"},
           run'.queue = Append(run.queue, e), exec'.seen = exec.seen
    PROVE  /\ Run!Notices' = Run!Notices
           /\ \A h \in Int : Run!Heard(h) => Run!Heard(h + 1)'
           /\ Run!BadQueued => Run!BadQueued'
           /\ e \in {"error", "quota", "malformed"} => Run!BadQueued'
<1> DEFINE q == run.queue
<1>1. q \in Seq(Run!Events) /\ e \in Run!Events /\ exec.seen \in Nat
    BY DEF Run!TypeOK, Run!JobRecord, Run!ExecRecord
<1>2. /\ Len(Append(q, e)) = Len(q) + 1 /\ Len(q) \in Nat
      /\ DOMAIN Append(q, e) = 1 .. Len(q) + 1 /\ DOMAIN q = 1 .. Len(q)
      /\ \A i \in 1 .. Len(q) : Append(q, e)[i] = q[i]
      /\ Append(q, e)[Len(q) + 1] = e
    BY <1>1, AppendFacts
<1>3. Run!Notices' = Run!Notices
    BY <1>1, <1>2 DEF Run!Notices
<1>4. ASSUME NEW h \in Int, Run!Heard(h) PROVE Run!Heard(h + 1)'
    <2>1. \A i \in Run!Notices : i \in Nat
        BY <1>2 DEF Run!Notices
    <2> QED
        BY <1>1, <1>2, <1>3, <1>4, <2>1 DEF Run!Heard
<1>5. Run!BadQueued => Run!BadQueued'
    BY <1>1, <1>2 DEF Run!BadQueued
<1>6. e \in {"error", "quota", "malformed"} => Run!BadQueued'
    BY <1>1, <1>2 DEF Run!BadQueued
<1> QED
    BY <1>3, <1>4, <1>5, <1>6

(* The executor reads the event that was queued first. *)
LEMMA QueueRead ==
    ASSUME Run!TypeOK, run.queue # << >>, \A i, j \in Run!Notices : i = j,
           run'.queue = Tail(run.queue),
           exec'.seen = IF Head(run.queue) = "fallback" THEN 0 ELSE exec.seen + 1
    PROVE  /\ Run!Notices = {} => Run!Notices' = {}
           /\ \A i, j \in Run!Notices' : i = j
           /\ \A h \in Int : Run!Heard(h) => Run!Heard(h)'
           /\ Run!BadQueued /\ Head(run.queue) \notin {"error", "quota", "malformed"} => Run!BadQueued'
<1> DEFINE q == run.queue
<1>1. q \in Seq(Run!Events) /\ exec.seen \in Nat
    BY DEF Run!TypeOK, Run!JobRecord, Run!ExecRecord
<1>2. /\ Len(q) > 0 /\ Len(q) \in Nat /\ Head(q) = q[1] /\ Len(Tail(q)) = Len(q) - 1
      /\ DOMAIN Tail(q) = 1 .. Len(q) - 1 /\ DOMAIN q = 1 .. Len(q)
      /\ \A i \in 1 .. Len(q) - 1 : Tail(q)[i] = q[i + 1]
    BY <1>1, TailFacts
<1>3. \A i \in Run!Notices' : i \in Nat /\ i + 1 \in Run!Notices
    BY <1>1, <1>2 DEF Run!Notices
<1>4. \A i \in Run!Notices : i \in Nat /\ (i = 1 \/ i - 1 \in Run!Notices')
    BY <1>1, <1>2 DEF Run!Notices
<1>5. (1 \in Run!Notices) <=> (Head(q) = "fallback")
    BY <1>1, <1>2 DEF Run!Notices
<1>6. Run!Notices = {} => Run!Notices' = {}
    BY <1>3
<1>7. \A i, j \in Run!Notices' : i = j
    BY <1>3
<1>8. ASSUME NEW h \in Int, Run!Heard(h) PROVE Run!Heard(h)'
    <2>1. CASE Run!Notices = {}
        BY <1>1, <1>2, <1>5, <1>6, <1>8, <2>1 DEF Run!Heard
    <2>2. ASSUME NEW i \in Run!Notices, h = Len(q) - i PROVE Run!Heard(h)'
        <3>1. CASE i = 1
            <4>0. \A k \in Run!Notices : k = 1
                BY <3>1, <2>2
            <4>1. Run!Notices' = {}
                <5> SUFFICES ASSUME NEW k \in Run!Notices' PROVE FALSE
                    OBVIOUS
                <5>1. k \in Nat /\ k + 1 \in Run!Notices /\ k \in 1 .. Len(q) - 1
                    BY <1>2, <1>3 DEF Run!Notices
                <5> QED
                    BY <4>0, <5>1
            <4>2. exec'.seen = 0
                BY <1>5, <3>1, <2>2
            <4> QED
                BY <1>2, <2>2, <3>1, <4>1, <4>2 DEF Run!Heard
        <3>2. CASE i # 1
            BY <1>2, <1>4, <2>2, <3>2 DEF Run!Heard
        <3> QED
            BY <3>1, <3>2
    <2> QED
        BY <1>8, <2>1, <2>2 DEF Run!Heard
<1>9. Run!BadQueued /\ Head(q) \notin {"error", "quota", "malformed"} => Run!BadQueued'
    <2> SUFFICES ASSUME NEW i \in DOMAIN q, q[i] \in {"error", "quota", "malformed"},
                        Head(q) \notin {"error", "quota", "malformed"}
                 PROVE  Run!BadQueued'
        BY DEF Run!BadQueued
    <2>1. i # 1 /\ i - 1 \in DOMAIN Tail(q) /\ Tail(q)[i - 1] = q[i]
        BY <1>2
    <2> QED
        BY <2>1 DEF Run!BadQueued
<1> QED
    BY <1>6, <1>7, <1>8, <1>9
-----------------------------------------------------------------------------
(* A step of the process, the monitor or the executor that leaves the      *)
(* frames and what was heard of them as they are, or ends the hope.        *)
LEMMA Kept ==
    ASSUME Run!IInv, Run!TypeOK', Run!MonitorHeld', Run!JobHeld', Run!NoticeHeld', UNCHANGED <<bus, history>>,
           proc'.due = proc.due, proc'.bad = proc.bad, proc'.greeted = proc.greeted,
           proc'.over = proc.over, proc'.truncated = proc.truncated,
           proc'.monitor = "done" <=> proc.monitor = "done",
           proc.monitor = "failed" => proc'.monitor = "failed",
           drive'.transport = drive.transport, drive'.state = drive.state,
           drive'.phase = drive.phase, drive'.safe = drive.safe,
           Run!Hopeful' => Run!Hopeful, run'.result = run.result,
           \A h \in Int : Run!Hopeful' /\ Run!Heard(h) => Run!Heard(h)',
           Run!Hopeful' /\ Run!BadQueued => Run!BadQueued',
           Run!OutcomeHeld'
    PROVE  Run!IInv'
<1>1. Run!SubmissionHeld'
    BY DEF Run!IInv, Run!SubmissionHeld
<1>2. Run!Unread' = Run!Unread
    BY DEF Run!Unread
<1>3. Run!BusHeld'
    BY <1>2 DEF Run!IInv, Run!BusHeld
<1>4. Run!GreetingHeld'
    BY <1>2 DEF Run!IInv, Run!GreetingHeld, Run!Flowing
<1>5. Run!FlowHeld'
    <2> SUFFICES ASSUME Run!Flowing' PROVE \E n \in 0 .. Run!Unread : Run!Accounted(n)'
        BY <1>2 DEF Run!FlowHeld
    <2>1. PICK n \in 0 .. Run!Unread : Run!Accounted(n)
        BY DEF Run!IInv, Run!FlowHeld, Run!Flowing
    <2>2. Run!Greeting(n)' = Run!Greeting(n) /\ Run!Greeting(n) \in Nat
        BY DEF Run!Greeting
    <2>3. proc.due + Run!Greeting(n) - n \in Int
        BY <2>2 DEF Run!IInv, Run!TypeOK, Run!ProcRecord
    <2>4. Run!Accounted(n)'
        BY <1>2, <2>1, <2>2, <2>3 DEF Run!Accounted, Run!Flowing
    <2> QED
        BY <2>4
<1>6. Run!AllHeard /\ Run!Hopeful' => Run!AllHeard'
    <2>1. proc.due \in Int /\ proc.due + 1 \in Int /\ proc.due + 0 \in Int
        BY DEF Run!IInv, Run!TypeOK, Run!ProcRecord
    <2> QED
        BY <2>1 DEF Run!AllHeard
<1>7. Run!EndHeld'
    BY <1>6 DEF Run!IInv, Run!EndHeld
<1> QED
    BY <1>1, <1>3, <1>4, <1>5, <1>7 DEF Run!IInv

(* What is heard depends on the queue and on what was seen. *)
LEMMA SameQueue ==
    ASSUME run'.queue = run.queue, exec'.seen = exec.seen
    PROVE  /\ Run!Notices' = Run!Notices /\ (Run!BadQueued' <=> Run!BadQueued)
           /\ \A h \in Int : Run!Heard(h)' <=> Run!Heard(h)
BY DEF Run!Notices, Run!BadQueued, Run!Heard

(* A step that changes the process only, and not what it wrote. *)
LEMMA ProcOnly ==
    ASSUME Run!IInv, proc' \in Run!ProcRecord, Run!MonitorHeld',
           UNCHANGED <<bus, drive, run, exec, cancelled, history>>,
           proc'.due = proc.due, proc'.bad = proc.bad, proc'.greeted = proc.greeted,
           proc'.over = proc.over, proc'.truncated = proc.truncated,
           proc'.monitor = "done" <=> proc.monitor = "done",
           proc.monitor = "failed" => proc'.monitor = "failed"
    PROVE  Run!IInv'
<1>1. Run!TypeOK'
    BY DEF Run!IInv, Run!TypeOK
<1>2. Run!Hopeful' <=> Run!Hopeful
    BY DEF Run!Hopeful, Run!Unbroken
<1>3. Run!JobHeld'
    BY <1>2 DEF Run!IInv, Run!JobHeld, Run!Hopeful, Run!Unbroken
<1>4. Run!NoticeHeld'
    BY DEF Run!IInv, Run!NoticeHeld, Run!Notices
<1>5. Run!OutcomeHeld'
    BY DEF Run!IInv, Run!OutcomeHeld, Run!SucceededIsComplete
<1> QED
    BY <1>1, <1>2, <1>3, <1>4, <1>5, SameQueue, Kept

(* The fields of the process. *)
LEMMA ProcFields ==
    ASSUME Run!TypeOK
    PROVE  /\ proc \in Run!ProcRecord
           /\ proc.child \in {"running", "ok", "bad", "killed"} /\ proc.tree \in BOOLEAN
           /\ proc.wrote \in Nat /\ proc.due \in Nat
           /\ proc.monitor \in {"watching", "joining", "done", "failed"}
           /\ proc.reason \in {"none", "exited", "cancelled", "timed_out"}
BY DEF Run!TypeOK, Run!ProcRecord

(* The provider exits, and a descendant may keep its pipes open. *)
LEMMA ProviderEndsOK ==
    ASSUME Run!IInv, Run!Fork \/ (\E code \in {"ok", "bad"} : Run!ChildExit(code)) \/ Run!DescendantsExit
    PROVE  Run!IInv'
<1>0. proc \in Run!ProcRecord /\ Run!MonitorHeld
    BY DEF Run!IInv, Run!TypeOK
<1>1. CASE Run!Fork
    <2>1. proc' \in Run!ProcRecord
        BY <1>0, <1>1 DEF Run!Fork, Run!ProcRecord
    <2>2. Run!MonitorHeld'
        BY <1>0, <1>1 DEF Run!Fork, Run!ProcRecord, Run!MonitorHeld, Run!PipesOpen
    <2> QED
        BY <1>0, <1>1, <2>1, <2>2, ProcOnly DEF Run!Fork, Run!ProcRecord
<1>2. ASSUME NEW code \in {"ok", "bad"}, Run!ChildExit(code) PROVE Run!IInv'
    <2>1. proc' \in Run!ProcRecord
        BY <1>0, <1>2 DEF Run!ChildExit, Run!ProcRecord
    <2>2. Run!MonitorHeld'
        BY <1>0, <1>2 DEF Run!ChildExit, Run!ProcRecord, Run!MonitorHeld, Run!PipesOpen
    <2> QED
        BY <1>0, <1>2, <2>1, <2>2, ProcOnly DEF Run!ChildExit, Run!ProcRecord
<1>3. CASE Run!DescendantsExit
    <2>1. proc' \in Run!ProcRecord
        BY <1>0, <1>3 DEF Run!DescendantsExit, Run!ProcRecord
    <2>2. Run!MonitorHeld'
        BY <1>0, <1>3 DEF Run!DescendantsExit, Run!ProcRecord, Run!MonitorHeld, Run!PipesOpen
    <2> QED
        BY <1>0, <1>3, <2>1, <2>2, ProcOnly DEF Run!DescendantsExit, Run!ProcRecord
<1> QED
    BY <1>1, <1>2, <1>3

(* The monitor of ProcessSupervisor sees the exit, a stop or the deadline. *)
LEMMA MonitorOK ==
    ASSUME Run!IInv, Run!MonitorExit \/ (\E reason \in {"cancelled", "timed_out"} : Run!MonitorKill(reason))
    PROVE  Run!IInv'
<1>0. proc \in Run!ProcRecord /\ Run!MonitorHeld /\ Run!Killed(proc.child) \in {"ok", "bad", "killed"}
    BY DEF Run!IInv, Run!TypeOK, Run!Killed, Run!ProcRecord
<1>1. CASE Run!MonitorExit
    <2>1. proc' \in Run!ProcRecord
        BY <1>0, <1>1 DEF Run!MonitorExit, Run!ProcRecord
    <2>2. Run!MonitorHeld'
        BY <1>0, <1>1 DEF Run!MonitorExit, Run!ProcRecord, Run!MonitorHeld
    <2> QED
        BY <1>0, <1>1, <2>1, <2>2, ProcOnly DEF Run!MonitorExit, Run!ProcRecord
<1>2. ASSUME NEW reason \in {"cancelled", "timed_out"}, Run!MonitorKill(reason) PROVE Run!IInv'
    <2>1. \/ proc' = [proc EXCEPT !.monitor = "joining", !.reason = reason,
                                  !.child = Run!Killed(proc.child), !.tree = FALSE]
          \/ proc' = [proc EXCEPT !.monitor = "joining", !.reason = reason,
                                  !.child = Run!Killed(proc.child), !.treeError = TRUE]
          \/ proc' = [proc EXCEPT !.monitor = "failed"]
        BY <1>2 DEF Run!MonitorKill
    <2>2. proc' \in Run!ProcRecord
        BY <1>0, <2>1 DEF Run!ProcRecord
    <2>3. Run!MonitorHeld'
        BY <1>0, <2>1 DEF Run!ProcRecord, Run!MonitorHeld
    <2>4. /\ proc'.due = proc.due /\ proc'.bad = proc.bad /\ proc'.greeted = proc.greeted
          /\ proc'.over = proc.over /\ proc'.truncated = proc.truncated
          /\ proc'.monitor \in {"joining", "failed"} /\ proc.monitor = "watching"
        BY <1>0, <1>2, <2>1 DEF Run!ProcRecord, Run!MonitorKill
    <2> QED
        BY <1>2, <2>2, <2>3, <2>4, ProcOnly DEF Run!MonitorKill
<1> QED
    BY <1>1, <1>2
-----------------------------------------------------------------------------
(* The executor. *)

(* A step of the executor that leaves the driver and the process alone.    *)
LEMMA ExecKept ==
    ASSUME Run!IInv, UNCHANGED <<proc, bus, drive, history>>,
           run' \in Run!JobRecord, exec' \in Run!ExecRecord, cancelled' \in BOOLEAN,
           Run!JobHeld', Run!NoticeHeld', Run!OutcomeHeld',
           Run!Hopeful' => Run!Hopeful, run'.result = run.result,
           \A h \in Int : Run!Hopeful' /\ Run!Heard(h) => Run!Heard(h)',
           Run!Hopeful' /\ Run!BadQueued => Run!BadQueued'
    PROVE  Run!IInv'
<1>1. Run!TypeOK'
    BY DEF Run!IInv, Run!TypeOK
<1>2. Run!MonitorHeld'
    BY DEF Run!IInv, Run!MonitorHeld, Run!PipesOpen
<1> QED
    BY <1>1, <1>2, Kept

(* The fields of the executor. *)
LEMMA ExecFields ==
    ASSUME Run!IInv
    PROVE  /\ run \in Run!JobRecord /\ exec \in Run!ExecRecord /\ drive \in Run!DriveRecord
           /\ cancelled \in BOOLEAN
           /\ run.queue \in Seq(Run!Events) /\ run.dropped \in Nat
           /\ exec.seen \in Nat /\ exec.failure \in {"none", "retryable", "final"}
           /\ exec.state \in {"loop", "waiting", "reporting", "done"}
BY DEF Run!IInv, Run!TypeOK, Run!JobRecord, Run!ExecRecord

(* adapter.cancel touches the flag only. *)
LEMMA CancelJobFacts ==
    ASSUME NEW j \in Run!JobRecord
    PROVE  /\ Run!CancelJob(j) \in Run!JobRecord
           /\ Run!CancelJob(j).queue = j.queue /\ Run!CancelJob(j).dropped = j.dropped
           /\ Run!CancelJob(j).loss = j.loss /\ Run!CancelJob(j).limited = j.limited
           /\ Run!CancelJob(j).result = j.result
BY DEF Run!CancelJob, Run!JobRecord

(* The token of the task is cancelled, or the executor passes that on. *)
LEMMA CancelledOK ==
    ASSUME Run!IInv, Run!Cancel \/ Run!ExecCancelled
    PROVE  Run!IInv'
<1>0. /\ Run!JobHeld /\ Run!NoticeHeld /\ Run!OutcomeHeld /\ run \in Run!JobRecord /\ exec \in Run!ExecRecord
      /\ cancelled \in BOOLEAN
    BY ExecFields DEF Run!IInv
<1>1. CASE Run!Cancel
    <2>1. ~ Run!Hopeful' /\ run' = run /\ exec' = exec /\ drive' = drive /\ proc' = proc
        BY <1>1 DEF Run!Cancel, Run!Hopeful, Run!Unbroken
    <2>2. Run!JobHeld'
        BY <1>0, <1>1, <2>1 DEF Run!JobHeld, Run!Hopeful, Run!Unbroken, Run!Cancel
    <2>3. Run!NoticeHeld' /\ Run!OutcomeHeld'
        BY <1>0, <2>1 DEF Run!NoticeHeld, Run!Notices, Run!OutcomeHeld, Run!SucceededIsComplete
    <2> QED
        BY <1>0, <1>1, <2>1, <2>2, <2>3, ExecKept DEF Run!Cancel
<1>2. CASE Run!ExecCancelled
    <2>1. ~ Run!Hopeful' /\ run' = Run!CancelJob(run) /\ drive' = drive /\ proc' = proc
        BY <1>2 DEF Run!ExecCancelled, Run!Hopeful, Run!Unbroken
    <2>2. exec' \in Run!ExecRecord /\ exec'.outcome = exec.outcome /\ exec.outcome # "succeeded"
        BY <1>0, <1>2 DEF Run!ExecCancelled, Run!ExecRecord, Run!OutcomeHeld
    <2>3. Run!JobHeld'
        <3>1. ~ Run!Unbroken'
            BY <1>2 DEF Run!ExecCancelled, Run!Unbroken
        <3> QED
            BY <1>0, <2>1, <3>1, CancelJobFacts DEF Run!JobHeld
    <2>4. Run!NoticeHeld'
        BY <1>0, <2>1, CancelJobFacts DEF Run!NoticeHeld, Run!Notices
    <2>5. Run!OutcomeHeld'
        BY <2>2 DEF Run!OutcomeHeld, Run!SucceededIsComplete
    <2> QED
        BY <1>0, <1>2, <2>1, <2>2, <2>3, <2>4, <2>5, CancelJobFacts, ExecKept DEF Run!ExecCancelled
<1> QED
    BY <1>1, <1>2

(* An event is read. *)
LEMMA ReadOK ==
    ASSUME Run!IInv, exec.state = "loop", UNCHANGED <<proc, bus, drive, cancelled, history>>,
           run.queue # << >>,
           run' \in Run!JobRecord, exec' \in Run!ExecRecord,
           run'.queue = Tail(run.queue), run'.dropped = run.dropped, run'.loss = run.loss,
           run'.limited = run.limited, run'.result = run.result,
           exec'.seen = IF Head(run.queue) = "fallback" THEN 0 ELSE exec.seen + 1,
           exec'.outcome = exec.outcome,
           exec'.failure = "none" =>
              /\ exec.failure = "none" /\ exec'.state = "loop" /\ run'.cancel = run.cancel
              /\ Head(run.queue) \notin {"error", "quota", "malformed"}
    PROVE  Run!IInv'
<1>0. /\ Run!JobHeld /\ Run!NoticeHeld /\ Run!OutcomeHeld /\ Run!TypeOK
      /\ run \in Run!JobRecord /\ exec \in Run!ExecRecord /\ cancelled \in BOOLEAN
    BY ExecFields DEF Run!IInv
<1>1. Run!Hopeful' => Run!Hopeful /\ exec'.failure = "none"
    BY DEF Run!Hopeful, Run!Unbroken
<1>2. /\ Run!Notices = {} => Run!Notices' = {}
      /\ \A i, j \in Run!Notices' : i = j
      /\ \A h \in Int : Run!Heard(h) => Run!Heard(h)'
      /\ Run!BadQueued /\ Head(run.queue) \notin {"error", "quota", "malformed"} => Run!BadQueued'
    BY <1>0, QueueRead DEF Run!NoticeHeld
<1>3. Run!JobHeld'
    <2>1. run'.limited \/ run'.dropped > 0 => run'.loss
        BY <1>0 DEF Run!JobHeld, Run!Hopeful, Run!Unbroken
    <2>2. run'.cancel => ~Run!Unbroken'
        BY <1>0, <1>1 DEF Run!JobHeld, Run!Hopeful, Run!Unbroken
    <2>3. exec'.state = "waiting" /\ Run!Hopeful' => FALSE
        BY <1>1
    <2>4. (run'.result # "none") <=> (drive'.state = "done")
        BY <1>0 DEF Run!JobHeld, Run!Hopeful, Run!Unbroken
    <2> QED
        BY <2>1, <2>2, <2>3, <2>4 DEF Run!JobHeld, Run!Hopeful, Run!Unbroken
<1>4. Run!NoticeHeld'
    BY <1>0, <1>2 DEF Run!NoticeHeld
<1>5. exec.outcome # "succeeded"
    BY <1>0 DEF Run!OutcomeHeld
<1>6. Run!OutcomeHeld'
    BY <1>5 DEF Run!OutcomeHeld, Run!SucceededIsComplete
<1> QED
    BY <1>0, <1>1, <1>2, <1>3, <1>4, <1>6, ExecKept

(* A failure once recorded stays. *)
LEMMA RecordedFacts ==
    ASSUME NEW f \in {"none", "retryable", "final"}, NEW g \in {"retryable", "final"}
    PROVE  Run!Recorded(f, g) \in {"retryable", "final"}
BY DEF Run!Recorded

(* The executor parses the next event of the channel. *)
LEMMA ExecEventOK ==
    ASSUME Run!IInv, Run!ExecEvent
    PROVE  Run!IInv'
<1>0. /\ Run!JobHeld /\ Run!NoticeHeld /\ Run!OutcomeHeld /\ Run!TypeOK
      /\ run \in Run!JobRecord /\ exec \in Run!ExecRecord /\ cancelled \in BOOLEAN
      /\ run.queue \in Seq(Run!Events) /\ exec.state = "loop" /\ exec.seen \in Nat
      /\ exec.failure \in {"none", "retryable", "final"}
      /\ UNCHANGED <<proc, bus, drive, cancelled, history>>
    BY ExecFields DEF Run!IInv, Run!ExecEvent
<1>1. CASE run.queue # << >>
    <2> DEFINE e == Head(run.queue)
               n == IF e = "fallback" THEN 0 ELSE exec.seen + 1
               rest == [run EXCEPT !.queue = Tail(run.queue)]
               next == [exec EXCEPT !.seen = n]
    <2>1. Tail(run.queue) \in Seq(Run!Events) /\ n \in Nat
        BY <1>0, <1>1, TailFacts
    <2>2. /\ rest \in Run!JobRecord /\ rest.queue = Tail(run.queue) /\ rest.dropped = run.dropped
          /\ rest.loss = run.loss /\ rest.limited = run.limited /\ rest.result = run.result
          /\ rest.cancel = run.cancel
        BY <1>0, <2>1, JobRecords DEF Run!JobRecord
    <2>3. /\ next \in Run!ExecRecord /\ next.seen = n /\ next.outcome = exec.outcome
          /\ next.failure = exec.failure /\ next.state = "loop"
        BY <1>0, <2>1 DEF Run!ExecRecord
    <2>9. n = IF Head(run.queue) = "fallback" THEN 0 ELSE exec.seen + 1
        OBVIOUS
    <2> HIDE DEF rest, next, n
    <2>4. CASE e \in {"output", "fallback"} /\ exec' = next /\ run' = rest
        BY <1>0, <1>1, <2>2, <2>3, <2>4, <2>9, ReadOK
    <2>5. CASE e = "completed" /\ exec' = [next EXCEPT !.completed = TRUE] /\ run' = rest
        <3>1. /\ exec' \in Run!ExecRecord /\ exec'.outcome = exec.outcome
              /\ exec'.failure = exec.failure /\ exec'.state = "loop" /\ exec'.seen = n
            BY <2>3, <2>5 DEF Run!ExecRecord
        <3> QED
            BY <1>0, <1>1, <2>2, <2>5, <2>9, <3>1, ReadOK
    <2>6. CASE e = "quota" /\ exec' = [next EXCEPT !.quota = TRUE,
                                          !.failure = Run!Recorded(next.failure, "retryable")] /\ run' = rest
        <3>1. /\ exec' \in Run!ExecRecord /\ exec'.outcome = exec.outcome /\ exec'.failure # "none"
              /\ exec'.seen = n
            BY <1>0, <2>3, <2>6, RecordedFacts DEF Run!ExecRecord
        <3> QED
            BY <1>0, <1>1, <2>2, <2>6, <2>9, <3>1, ReadOK
    <2>7. CASE /\ e \in {"error", "malformed"}
               /\ exec' = [next EXCEPT !.state = "waiting", !.failure =
                          Run!Recorded(next.failure, IF e = "error" THEN "retryable" ELSE "final")]
               /\ run' = Run!CancelJob(rest)
        <3>1. /\ exec' \in Run!ExecRecord /\ exec'.outcome = exec.outcome /\ exec'.failure # "none"
              /\ exec'.seen = n
            BY <1>0, <2>3, <2>7, RecordedFacts DEF Run!ExecRecord
        <3> QED
            BY <1>0, <1>1, <2>2, <2>7, <2>9, <3>1, CancelJobFacts, ReadOK
    <2>8. e \in Run!Events
        BY <1>0, <1>1, TailFacts
    <2> QED
        BY <1>0, <1>1, <2>4, <2>5, <2>6, <2>7 DEF Run!ExecEvent, rest, next, n
<1>2. CASE /\ run.queue = << >> /\ run.dropped > 0
           /\ exec' = [exec EXCEPT !.state = "waiting", !.failure = Run!Recorded(exec.failure, "final")]
           /\ run' = Run!CancelJob([run EXCEPT !.dropped = 0])
    <2>1. /\ exec' \in Run!ExecRecord /\ exec'.outcome = exec.outcome /\ exec'.failure # "none"
          /\ exec'.seen = exec.seen
        BY <1>0, <1>2, RecordedFacts DEF Run!ExecRecord
    <2>2. /\ run' \in Run!JobRecord /\ run'.queue = run.queue /\ run'.dropped = 0 /\ run'.loss = run.loss
          /\ run'.limited = run.limited /\ run'.result = run.result
        <3>1. /\ [run EXCEPT !.dropped = 0] \in Run!JobRecord
              /\ [run EXCEPT !.dropped = 0].queue = run.queue
              /\ [run EXCEPT !.dropped = 0].dropped = 0
              /\ [run EXCEPT !.dropped = 0].loss = run.loss
              /\ [run EXCEPT !.dropped = 0].limited = run.limited
              /\ [run EXCEPT !.dropped = 0].result = run.result
            BY <1>0 DEF Run!JobRecord
        <3> QED
            BY <1>2, <3>1, CancelJobFacts
    <2>3. ~ Run!Hopeful'
        BY <2>1 DEF Run!Hopeful, Run!Unbroken
    <2>4. Run!JobHeld'
        BY <1>0, <2>1, <2>2 DEF Run!JobHeld, Run!Unbroken
    <2>5. Run!NoticeHeld'
        BY <1>0, <2>2 DEF Run!NoticeHeld, Run!Notices
    <2>6. Run!OutcomeHeld'
        BY <1>0, <2>1 DEF Run!OutcomeHeld, Run!SucceededIsComplete
    <2> QED
        BY <1>0, <2>1, <2>2, <2>3, <2>4, <2>5, <2>6, ExecKept
<1>3. CASE /\ run.queue = << >> /\ run.dropped = 0 /\ drive.state = "done"
           /\ exec' = [exec EXCEPT !.state = "waiting"] /\ UNCHANGED run
    <2>1. /\ exec' \in Run!ExecRecord /\ exec'.outcome = exec.outcome /\ exec'.failure = exec.failure
          /\ exec'.seen = exec.seen
        BY <1>0, <1>3 DEF Run!ExecRecord
    <2>2. Run!Hopeful' <=> Run!Hopeful
        BY <1>0, <1>3, <2>1 DEF Run!Hopeful, Run!Unbroken
    <2>3. Run!JobHeld'
        BY <1>0, <1>3, <2>2 DEF Run!JobHeld, Run!Hopeful, Run!Unbroken
    <2>4. Run!NoticeHeld'
        BY <1>0, <1>3 DEF Run!NoticeHeld, Run!Notices
    <2>5. Run!OutcomeHeld'
        BY <1>0, <2>1 DEF Run!OutcomeHeld, Run!SucceededIsComplete
    <2> QED
        BY <1>0, <1>3, <2>1, <2>2, <2>3, <2>4, <2>5, SameQueue, ExecKept
<1> QED
    BY <1>0, <1>1, <1>2, <1>3 DEF Run!ExecEvent

(* A failure that was recorded is not forgotten at the end. *)
LEMMA FailureFacts ==
    ASSUME Run!IInv
    PROVE  /\ Run!FailureAtEnd \in {"none", "retryable", "final"}
           /\ Run!FailureAtEnd = "none" => exec.failure = "none" /\ ~ Run!Truncated
<1>1. exec.failure \in {"none", "retryable", "final"}
    BY ExecFields
<1> DEFINE recorded == {exec.failure, IF Run!Truncated THEN "final" ELSE "none",
                        IF cancelled \/ exec.quota THEN "none" ELSE Run!EndFailure}
<1>2. Run!FailureAtEnd = CASE "final" \in recorded -> "final"
                           [] "retryable" \in recorded -> "retryable"
                           [] OTHER -> "none"
    BY DEF Run!FailureAtEnd
<1>3. exec.failure \in recorded /\ (Run!Truncated => "final" \in recorded)
    OBVIOUS
<1> HIDE DEF recorded
<1> QED
    BY <1>1, <1>2, <1>3

(* What a success says of the job. *)
LEMMA OutcomeFacts ==
    ASSUME Run!IInv
    PROVE  /\ Run!Outcome \in {"succeeded", "failed", "cancelled", "timed_out", "quota_exceeded"}
           /\ Run!Outcome = "succeeded" =>
                 run.result = "ok" /\ ~cancelled /\ Run!FailureAtEnd = "none"
BY ExecFields DEF Run!Outcome

(* The executor waits for the result of the job and decides. *)
LEMMA ExecWaitOK ==
    ASSUME Run!IInv, Run!ExecWait
    PROVE  Run!IInv'
<1>0. /\ Run!JobHeld /\ Run!NoticeHeld /\ Run!OutcomeHeld /\ Run!EndHeld /\ Run!TypeOK
      /\ run \in Run!JobRecord /\ exec \in Run!ExecRecord /\ cancelled \in BOOLEAN
      /\ exec.state = "waiting" /\ exec.seen \in Nat /\ run.result # "none"
      /\ UNCHANGED <<proc, bus, drive, cancelled, history>>
    BY ExecFields DEF Run!IInv, Run!ExecWait
<1>1. drive.state = "done" /\ drive'.state = "done"
    BY <1>0 DEF Run!JobHeld, Run!Hopeful, Run!Unbroken
<1>2. /\ run' \in Run!JobRecord /\ run'.queue = << >> /\ run'.dropped = 0 /\ run'.loss = run.loss
      /\ run'.limited = run.limited /\ run'.result = run.result /\ run'.cancel = run.cancel
    <2>1. run' = [run EXCEPT !.queue = << >>, !.dropped = 0, !.forwarded = 0] /\ << >> \in Seq(Run!Events)
        BY DEF Run!ExecWait
    <2> QED
        BY <1>0, <2>1 DEF Run!JobRecord
<1>3. /\ exec' \in Run!ExecRecord /\ exec'.seen = exec.seen /\ exec'.state \in {"reporting", "done"}
      /\ exec'.failure = "none" => exec.failure = "none"
      /\ exec'.outcome = "succeeded" =>
            run.result = "ok" /\ ~cancelled /\ exec.failure = "none" /\ ~ Run!Truncated
    <2>1. CASE exec' = [exec EXCEPT !.state = "done", !.outcome = "error"]
        BY <1>0, <2>1 DEF Run!ExecRecord
    <2>2. CASE exec' = [exec EXCEPT !.state = "reporting", !.outcome = Run!Outcome, !.failure = Run!FailureAtEnd]
        <3> DEFINE o == Run!Outcome
                   f == Run!FailureAtEnd
        <3>1. /\ o \in {"succeeded", "failed", "cancelled", "timed_out", "quota_exceeded"}
              /\ f \in {"none", "retryable", "final"}
              /\ o = "succeeded" => run.result = "ok" /\ ~cancelled /\ f = "none"
              /\ f = "none" => exec.failure = "none" /\ ~ Run!Truncated
            BY OutcomeFacts, FailureFacts
        <3> HIDE DEF o, f
        <3>2. exec' = [exec EXCEPT !.state = "reporting", !.outcome = o, !.failure = f]
            BY <2>2 DEF o, f
        <3>3. exec' \in Run!ExecRecord
            BY <1>0, <3>1, <3>2 DEF Run!ExecRecord
        <3>4. /\ exec'.seen = exec.seen /\ exec'.state = "reporting" /\ exec'.outcome = o
              /\ exec'.failure = f
            BY <1>0, <3>2 DEF Run!ExecRecord
        <3> QED
            BY <3>1, <3>3, <3>4
    <2> QED
        BY <2>1, <2>2 DEF Run!ExecWait
<1>4. Run!Hopeful' => Run!Hopeful
    BY <1>0, <1>2, <1>3 DEF Run!Hopeful, Run!Unbroken
<1>5. Run!Hopeful => run.queue = << >>
    BY <1>0 DEF Run!JobHeld, Run!Hopeful, Run!Unbroken
<1>6. Run!JobHeld'
    <2>1. run'.cancel => ~Run!Unbroken'
        BY <1>0, <1>2, <1>3 DEF Run!JobHeld, Run!Unbroken
    <2> QED
        BY <1>0, <1>1, <1>2, <1>3, <2>1 DEF Run!JobHeld, Run!Hopeful, Run!Unbroken
<1>7. Run!NoticeHeld'
    <2>1. Run!Notices' = {}
        BY <1>2 DEF Run!Notices
    <2> QED
        BY <2>1 DEF Run!NoticeHeld
<1>8. ASSUME exec'.outcome = "succeeded" PROVE Run!SucceededIsComplete'
    <2>1. Run!Hopeful /\ run.result = "ok"
        BY <1>3, <1>8 DEF Run!Hopeful, Run!Truncated, Run!Unbroken
    <2>2. run.queue = << >> /\ ~ Run!BadQueued /\ Run!Notices = {} /\ Len(run.queue) = 0
        BY <1>5, <2>1 DEF Run!BadQueued, Run!Notices
    <2>3. Run!AllHeard
        BY <1>0, <1>1, <2>1, <2>2 DEF Run!EndHeld
    <2>4. exec.seen = proc.due + (IF drive.transport = "agy" THEN 1 ELSE 0) /\ ~ proc.bad
        BY <1>0, <2>2, <2>3 DEF Run!AllHeard, Run!Heard
    <2> QED
        BY <1>0, <1>3, <2>4 DEF Run!SucceededIsComplete
<1>9. Run!OutcomeHeld'
    BY <1>1, <1>3, <1>8 DEF Run!OutcomeHeld, Run!SucceededIsComplete
<1> QED
    <2>1. Run!Hopeful' => run'.queue = run.queue
        BY <1>2, <1>4, <1>5
    <2>2. /\ \A h \in Int : Run!Hopeful' /\ Run!Heard(h) => Run!Heard(h)'
          /\ Run!Hopeful' /\ Run!BadQueued => Run!BadQueued'
        BY <1>3, <2>1, SameQueue
    <2> QED
        BY <1>0, <1>2, <1>3, <1>4, <1>6, <1>7, <1>9, <2>2, ExecKept

(* The outcome is reported. *)
LEMMA ExecReportOK ==
    ASSUME Run!IInv, NEW ok \in BOOLEAN, Run!ExecReport(ok)
    PROVE  Run!IInv'
<1>0. /\ Run!JobHeld /\ Run!NoticeHeld /\ Run!OutcomeHeld /\ Run!TypeOK
      /\ run \in Run!JobRecord /\ exec \in Run!ExecRecord /\ cancelled \in BOOLEAN
      /\ exec.state = "reporting"
      /\ UNCHANGED <<proc, bus, drive, run, cancelled, history>>
    BY ExecFields DEF Run!IInv, Run!ExecReport
<1>1. /\ exec' \in Run!ExecRecord /\ exec'.seen = exec.seen /\ exec'.state = "done"
      /\ exec'.failure = exec.failure /\ exec'.outcome \in {exec.outcome, "error"}
    BY <1>0 DEF Run!ExecReport, Run!ExecRecord
<1>2. Run!Hopeful' <=> Run!Hopeful
    BY <1>0, <1>1 DEF Run!Hopeful, Run!Unbroken
<1>3. Run!JobHeld'
    BY <1>0, <1>1, <1>2 DEF Run!JobHeld, Run!Hopeful, Run!Unbroken
<1>4. Run!NoticeHeld'
    BY <1>0 DEF Run!NoticeHeld, Run!Notices
<1>5. Run!OutcomeHeld'
    BY <1>0, <1>1 DEF Run!OutcomeHeld, Run!SucceededIsComplete
<1> QED
    BY <1>0, <1>1, <1>2, <1>3, <1>4, <1>5, SameQueue, ExecKept
-----------------------------------------------------------------------------
(* What is written and published. *)

(* The frames of the transports. *)
LEMMA FrameFacts ==
    /\ \A t \in Run!Transports : Run!FramesOf(t) \subseteq Run!BusEvents \ {"frames_dropped", "exited"}
    /\ \A t \in Run!Transports \ {"server"} :
          Run!FramesOf(t) \subseteq {"output", "completed", "error", "quota", "malformed"}
    /\ Run!FramesOf("server") =
          {"response", "bad", "item", "notice", "turn_completed", "turn_failed"}
BY DEF Run!Transports, Run!FramesOf, Run!StructuredFrames, Run!AgyFrames, Run!ServerFrames, Run!BusEvents

(* What a frame changes of the process. *)
LEMMA DueFacts ==
    ASSUME Run!TypeOK, NEW f, NEW b \in BOOLEAN, proc' = [Run!Due(proc, f) EXCEPT !.truncated = b]
    PROVE  /\ proc' \in Run!ProcRecord
           /\ proc'.child = proc.child /\ proc'.tree = proc.tree /\ proc'.truncated = b
           /\ proc'.monitor = proc.monitor /\ proc'.reason = proc.reason
           /\ proc'.due = IF proc.over \/ (f = "response" /\ ~ proc.greeted)
                          THEN proc.due ELSE proc.due + 1
           /\ proc'.bad <=> proc.bad \/ (~proc.over /\ f \notin
                  {"output", "completed", "response", "item", "notice", "turn_completed"})
           /\ proc'.greeted <=> proc.greeted \/ f = "response"
           /\ proc'.over <=> proc.over \/ f \in Run!TurnEnds
<1> DEFINE w == proc.wrote + 1
           d == IF proc.over \/ (f = "response" /\ ~ proc.greeted) THEN proc.due ELSE proc.due + 1
           x == proc.bad \/ (~proc.over /\ f \notin
                  {"output", "completed", "response", "item", "notice", "turn_completed"})
           g == proc.greeted \/ f = "response"
           o == proc.over \/ f \in {"turn_completed", "turn_failed"}
<1>1. proc \in Run!ProcRecord /\ w \in Nat /\ d \in Nat /\ x \in BOOLEAN /\ g \in BOOLEAN /\ o \in BOOLEAN
    BY DEF Run!TypeOK, Run!ProcRecord
<1>2. proc' = [[proc EXCEPT !.wrote = w, !.due = d, !.bad = x, !.greeted = g, !.over = o]
                  EXCEPT !.truncated = b]
    BY DEF Run!Due
<1>3. (g <=> proc.greeted \/ f = "response") /\ (o <=> proc.over \/ f \in Run!TurnEnds)
    BY DEF Run!TurnEnds
<1>4. /\ x <=> proc.bad \/ (~proc.over /\ f \notin
                  {"output", "completed", "response", "item", "notice", "turn_completed"})
      /\ d = IF proc.over \/ (f = "response" /\ ~ proc.greeted) THEN proc.due ELSE proc.due + 1
    OBVIOUS
<1> HIDE DEF w, d, x, g, o
<1>5. proc' \in Run!ProcRecord
    BY <1>1, <1>2 DEF Run!ProcRecord
<1>6. /\ proc'.child = proc.child /\ proc'.tree = proc.tree /\ proc'.truncated = b
      /\ proc'.monitor = proc.monitor /\ proc'.reason = proc.reason
      /\ proc'.due = d /\ proc'.bad = x /\ proc'.greeted = g /\ proc'.over = o
    BY <1>1, <1>2 DEF Run!ProcRecord
<1> QED
    BY <1>3, <1>4, <1>5, <1>6

(* An event published behind the frames in the channel. *)
LEMMA PublishedBus ==
    ASSUME Run!RunConstants, Run!IInv, NEW e \in Run!BusEvents, bus' = Run!Publish(bus, e),
           drive' = drive, drive.state = "driving", proc.monitor # "done",
           \/ /\ proc'.monitor # "done"
              /\ \/ e \in Run!FramesOf(drive.transport)
                 \/ e = "frames_dropped" /\ proc'.truncated
           \/ proc'.monitor = "done" /\ e = "exited",
           proc.truncated => proc'.truncated
    PROVE  /\ Run!BusHeld'
           /\ bus'.lagged = 0 =>
                 /\ bus.lagged = 0 /\ bus'.events = Append(bus.events, e)
                 /\ Run!Unread = Len(bus.events) /\ Len(bus.events) \in Nat
                 /\ Run!Unread' = IF e = "exited" THEN Run!Unread ELSE Run!Unread + 1
                 /\ \A i \in 1 .. Run!Unread : bus'.events[i] = bus.events[i]
                 /\ bus'.events[Run!Unread + 1] = e
<1> DEFINE E == bus.events
<1>1. E \in Seq(Run!BusEvents) /\ bus \in [events : Seq(Run!BusEvents), lagged : Nat] /\ drive.transport \in Run!Transports
    BY DEF Run!IInv, Run!TypeOK, Run!DriveRecord
<1>2. Len(E) \in Nat /\ Run!Unread = Len(E)
    BY <1>1 DEF Run!Unread
<1>3. \A i \in 1 .. Len(E) : \/ E[i] \in Run!FramesOf(drive.transport)
                             \/ E[i] = "frames_dropped" /\ proc.truncated
    BY <1>2 DEF Run!IInv, Run!BusHeld
<1>4. e = "exited" <=> proc'.monitor = "done"
    BY <1>1, FrameFacts
<1>5. CASE bus'.lagged = bus.lagged /\ bus'.events = Append(E, e)
    <2>1. /\ Len(bus'.events) = Len(E) + 1 /\ bus'.events[Len(E) + 1] = e /\ bus'.events # << >>
          /\ \A i \in 1 .. Len(E) : bus'.events[i] = E[i]
        BY <1>1, <1>5, AppendFacts
    <2>2. Run!Unread' = IF e = "exited" THEN Len(E) ELSE Len(E) + 1
        BY <1>2, <1>4, <2>1 DEF Run!Unread
    <2>3. Run!BusHeld'
        <3>1. ASSUME NEW i \in 1 .. Run!Unread'
              PROVE  \/ bus'.events[i] \in Run!FramesOf(drive.transport)
                     \/ bus'.events[i] = "frames_dropped" /\ proc'.truncated
            BY <1>2, <1>3, <1>4, <2>1, <2>2
        <3> QED
            BY <1>2, <1>4, <2>1, <3>1 DEF Run!BusHeld
    <2> QED
        BY <1>2, <1>5, <2>1, <2>2, <2>3
<1>6. CASE E # << >> /\ bus'.lagged > 0 /\ bus'.events = Append(Tail(E), e)
    <2>1. /\ Len(Tail(E)) = Len(E) - 1 /\ Tail(E) \in Seq(Run!BusEvents) /\ Len(E) > 0
          /\ \A i \in 1 .. Len(E) - 1 : Tail(E)[i] = E[i + 1]
        BY <1>1, <1>6, TailFacts
    <2>2. /\ Len(bus'.events) = Len(E) /\ bus'.events[Len(E)] = e /\ bus'.events # << >>
          /\ \A i \in 1 .. Len(E) - 1 : bus'.events[i] = E[i + 1]
        <3>1. /\ Len(bus'.events) = Len(Tail(E)) + 1 /\ bus'.events[Len(Tail(E)) + 1] = e
              /\ bus'.events # << >>
              /\ \A i \in 1 .. Len(Tail(E)) : bus'.events[i] = Tail(E)[i]
            BY <1>6, <2>1, AppendFacts
        <3> QED
            BY <1>2, <2>1, <3>1
    <2>3. Run!Unread' = IF e = "exited" THEN Len(E) - 1 ELSE Len(E)
        BY <1>2, <1>4, <2>2 DEF Run!Unread
    <2>4. Run!BusHeld'
        <3>1. ASSUME NEW i \in 1 .. Run!Unread'
              PROVE  \/ bus'.events[i] \in Run!FramesOf(drive.transport)
                     \/ bus'.events[i] = "frames_dropped" /\ proc'.truncated
            BY <1>2, <1>3, <1>4, <2>1, <2>2, <2>3
        <3> QED
            BY <1>2, <1>4, <2>2, <3>1 DEF Run!BusHeld
    <2> QED
        BY <1>6, <2>4
<1> QED
    BY <1>1, <1>5, <1>6, PublishFacts

(* A frame is written and captured. *)
LEMMA EmitOK ==
    ASSUME Run!RunConstants, Run!IInv, NEW f, NEW overLimit \in BOOLEAN, Run!Emit(f, overLimit)
    PROVE  Run!IInv'
<1> DEFINE e == IF overLimit THEN "frames_dropped" ELSE f
<1>0. /\ Run!TypeOK /\ Run!PipesOpen /\ drive.state # "done" /\ ~proc.truncated
      /\ f \in Run!FramesOf(drive.transport) /\ drive.transport \in Run!Transports
      /\ proc' = [Run!Due(proc, f) EXCEPT !.truncated = overLimit]
      /\ bus' = Run!Publish(bus, e)
      /\ UNCHANGED <<drive, run, exec, cancelled, history>>
    BY DEF Run!IInv, Run!Emit, Run!TypeOK, Run!DriveRecord, Run!Observed
<1>1. f \in Run!BusEvents \ {"frames_dropped", "exited"} /\ e \in Run!BusEvents /\ e # "exited"
    BY <1>0, FrameFacts DEF Run!BusEvents
<1>2. /\ proc' \in Run!ProcRecord
      /\ proc'.child = proc.child /\ proc'.tree = proc.tree /\ proc'.truncated = overLimit
      /\ proc'.monitor = proc.monitor /\ proc'.reason = proc.reason
      /\ proc'.due = IF proc.over \/ (f = "response" /\ ~ proc.greeted)
                     THEN proc.due ELSE proc.due + 1
      /\ proc'.bad <=> proc.bad \/ (~proc.over /\ f \notin
             {"output", "completed", "response", "item", "notice", "turn_completed"})
      /\ proc'.greeted <=> proc.greeted \/ f = "response"
      /\ proc'.over <=> proc.over \/ f \in Run!TurnEnds
    BY <1>0, DueFacts
<1>3. Run!TypeOK'
    BY <1>0, <1>1, <1>2, PublishFacts DEF Run!TypeOK
<1>4. Run!MonitorHeld' /\ proc.monitor # "done"
    BY <1>0, <1>2 DEF Run!IInv, Run!MonitorHeld, Run!PipesOpen
<1>5. Run!SubmissionHeld'
    BY <1>0 DEF Run!IInv, Run!SubmissionHeld
<1>6. Run!Hopeful' => Run!Hopeful /\ ~ overLimit
    BY <1>0, <1>2 DEF Run!Hopeful, Run!Unbroken
<1>7. Run!JobHeld'
    BY <1>0, <1>6 DEF Run!IInv, Run!JobHeld, Run!Hopeful, Run!Unbroken
<1>8. Run!NoticeHeld'
    BY <1>0 DEF Run!IInv, Run!NoticeHeld, Run!Notices
<1>9. Run!OutcomeHeld'
    BY <1>0 DEF Run!IInv, Run!OutcomeHeld, Run!SucceededIsComplete
<1>10. drive.transport # "server" => f \notin Run!TurnEnds /\ f # "response"
    BY <1>0, FrameFacts DEF Run!TurnEnds
<1>11. Run!EndHeld'
    <2>1. drive.transport # "server" => ~ proc'.over
        BY <1>2, <1>10 DEF Run!IInv, Run!EndHeld
    <2>2. drive.state = "finishing" /\ Run!Hopeful => proc.monitor = "failed"
        BY <1>4 DEF Run!IInv, Run!EndHeld
    <2>3. ASSUME drive.state = "completing", Run!Hopeful
          PROVE  proc'.over /\ proc'.due = proc.due /\ (proc'.bad <=> proc.bad)
        BY <1>2, <2>3 DEF Run!IInv, Run!EndHeld
    <2>4. drive.state = "completing" /\ Run!Hopeful /\ Run!AllHeard => Run!AllHeard'
        BY <1>0, <2>3 DEF Run!AllHeard, Run!Heard, Run!Notices, Run!BadQueued
    <2> QED
        BY <1>0, <1>2, <1>6, <2>1, <2>2, <2>3, <2>4 DEF Run!IInv, Run!EndHeld
<1>12. CASE drive.state # "driving"
    BY <1>0, <1>3, <1>4, <1>5, <1>7, <1>8, <1>9, <1>11, <1>12
       DEF Run!IInv, Run!BusHeld, Run!GreetingHeld, Run!FlowHeld, Run!Flowing
<1>13. CASE drive.state = "driving"
    <2>1. /\ Run!BusHeld'
          /\ bus'.lagged = 0 =>
                 /\ bus.lagged = 0 /\ bus'.events = Append(bus.events, e)
                 /\ Run!Unread = Len(bus.events) /\ Len(bus.events) \in Nat
                 /\ Run!Unread' = Run!Unread + 1
                 /\ \A i \in 1 .. Run!Unread : bus'.events[i] = bus.events[i]
                 /\ bus'.events[Run!Unread + 1] = e
        BY <1>0, <1>1, <1>2, <1>4, <1>13, PublishedBus
    <2>2. ASSUME Run!Flowing'
          PROVE  /\ Run!Flowing /\ e = f /\ Run!Unread \in Nat /\ Run!Unread' = Run!Unread + 1
                 /\ \A i \in 1 .. Run!Unread : bus'.events[i] = bus.events[i]
                 /\ bus'.events[Run!Unread + 1] = f
        BY <1>0, <1>6, <2>1, <2>2 DEF Run!Flowing
    <2>3. Run!GreetingHeld'
        <3> SUFFICES ASSUME Run!Flowing', drive.transport = "server"
                     PROVE  (proc'.greeted <=> \/ drive.phase # "initialize"
                                              \/ \E i \in 1 .. Run!Unread' : bus'.events[i] = "response")
            BY <1>0 DEF Run!GreetingHeld
        <3>1. proc.greeted <=> \/ drive.phase # "initialize"
                               \/ \E i \in 1 .. Run!Unread : bus.events[i] = "response"
            BY <2>2 DEF Run!IInv, Run!GreetingHeld
        <3>2. (\E i \in 1 .. Run!Unread' : bus'.events[i] = "response") <=>
                 (f = "response" \/ \E i \in 1 .. Run!Unread : bus.events[i] = "response")
            BY <2>2
        <3> QED
            BY <1>2, <3>1, <3>2
    <2>4. Run!FlowHeld'
        <3> SUFFICES ASSUME Run!Flowing' PROVE \E n \in 0 .. Run!Unread' : Run!Accounted(n)'
            BY DEF Run!FlowHeld
        <3>1. PICK n \in 0 .. Run!Unread : Run!Accounted(n)
            BY <2>2 DEF Run!IInv, Run!FlowHeld
        <3>2. proc.due \in Nat /\ drive' = drive
            BY <1>0, ProcFields
        <3>3. /\ \A h \in Int : Run!Heard(h)' <=> Run!Heard(h)
              /\ Run!BadQueued' <=> Run!BadQueued
            BY <1>0, SameQueue
        <3>4. CASE proc.over
            <4>1. \A i \in 1 .. n : bus'.events[i] = bus.events[i]
                BY <2>2
            <4>2. Run!Greeting(n)' = Run!Greeting(n) /\ Run!Greeting(n) \in Nat
                BY <3>2, <4>1 DEF Run!Greeting
            <4>3. proc'.due = proc.due /\ (proc'.bad <=> proc.bad) /\ proc'.over
                BY <1>2, <3>4
            <4>7. proc.due + Run!Greeting(n) - n \in Int
                BY <2>2, <3>2, <4>2
            <4>4. Run!Heard(proc.due + Run!Greeting(n) - n)'
                <5>1. Run!Heard(proc.due + Run!Greeting(n) - n)
                    BY <3>1 DEF Run!Accounted
                <5>3. ASSUME NEW h \in Int, h = proc.due + Run!Greeting(n) - n, Run!Heard(h)
                      PROVE  Run!Heard(h)' /\ h = proc'.due + Run!Greeting(n)' - n
                    BY <3>3, <4>2, <4>3, <5>3
                <5> QED
                    BY <4>7, <5>1, <5>3
            <4>5. Run!Accounted(n)'
                BY <3>1, <3>3, <3>4, <4>1, <4>3, <4>4 DEF Run!Accounted
            <4>6. n \in 0 .. Run!Unread'
                BY <2>2
            <4> QED
                BY <4>5, <4>6
        <3>5. CASE ~ proc.over
            <4>7. PICK m \in Nat : m = Run!Unread + 1
                BY <2>2
            <4>0. /\ n = Run!Unread /\ m \in Nat /\ m = Run!Unread' /\ m \in 0 .. Run!Unread'
                  /\ n \in Nat /\ m = n + 1 /\ m > 0 /\ m \in 1 .. m /\ 1 .. n \subseteq 1 .. m
                BY <2>2, <3>1, <3>5, <4>7 DEF Run!Accounted
            <4>1. /\ \A i \in 1 .. n : bus'.events[i] = bus.events[i]
                  /\ bus'.events[m] = f /\ \A i \in 1 .. m : i = m \/ i \in 1 .. n
                BY <2>2, <4>0, <4>7
            <4>8. (\E i \in 1 .. m : bus'.events[i] = "response") <=>
                     (f = "response" \/ \E i \in 1 .. n : bus.events[i] = "response")
                BY <4>0, <4>1
            <4>9. (\E i \in 1 .. n : bus.events[i] \in Run!BadFrames) \/ f \in Run!BadFrames =>
                     \E i \in 1 .. m : bus'.events[i] \in Run!BadFrames
                BY <4>0, <4>1
            <4>2. Run!Heard(proc.due + Run!Greeting(m) - m)'
                <5>1. Run!Greeting(n) \in {0, 1} /\ Run!Greeting(m)' \in {0, 1}
                    BY DEF Run!Greeting
                <5>2. proc'.due + Run!Greeting(m)' - m = proc.due + Run!Greeting(n) - n
                    <6>1. CASE f = "response" /\ ~ proc.greeted
                        <7>1. drive.transport = "server"
                            BY <1>10, <6>1
                        <7>2. drive.phase = "initialize" /\ \A i \in 1 .. n : bus.events[i] # "response"
                            BY <2>2, <4>0, <6>1, <7>1 DEF Run!IInv, Run!GreetingHeld
                        <7>3. Run!Greeting(n) = 0
                            BY <7>2 DEF Run!Greeting
                        <7>4. Run!Greeting(m)' = 1
                            BY <3>2, <4>8, <6>1, <7>2 DEF Run!Greeting
                        <7> QED
                            BY <1>2, <3>2, <3>5, <4>0, <6>1, <7>3, <7>4
                    <6>2. CASE f = "response" /\ proc.greeted
                        <7>1. drive.transport = "server"
                            BY <1>10, <6>2
                        <7>2. drive.phase # "initialize" \/ \E i \in 1 .. n : bus.events[i] = "response"
                            BY <2>2, <4>0, <6>2, <7>1 DEF Run!IInv, Run!GreetingHeld
                        <7>3. Run!Greeting(m)' = Run!Greeting(n)
                            BY <3>2, <4>8, <7>2 DEF Run!Greeting
                        <7> QED
                            BY <1>2, <3>2, <3>5, <4>0, <5>1, <6>2, <7>3
                    <6>3. CASE f # "response"
                        <7>1. Run!Greeting(m)' = Run!Greeting(n)
                            BY <3>2, <4>8, <6>3 DEF Run!Greeting
                        <7> QED
                            BY <1>2, <3>2, <3>5, <4>0, <5>1, <6>3, <7>1
                    <6> QED
                        BY <6>1, <6>2, <6>3
                <5>3. proc.due + Run!Greeting(n) - n \in Int
                    BY <3>2, <5>1
                <5> QED
                    BY <3>1, <3>3, <5>2, <5>3 DEF Run!Accounted
            <4>3. /\ proc'.over => m > 0 /\ bus'.events[m] \in Run!TurnEnds
                  /\ ~ proc'.over => m = Run!Unread'
                BY <1>2, <3>5, <4>0, <4>1
            <4>4. \A i \in 1 .. m : bus'.events[i] \in Run!TurnEnds => proc'.over /\ i = m
                BY <1>2, <3>1, <3>5, <4>1 DEF Run!Accounted
            <4>5. proc'.bad => Run!BadQueued' \/ \E i \in 1 .. m : bus'.events[i] \in Run!BadFrames
                <5>1. CASE proc.bad
                    BY <3>1, <3>3, <4>9, <5>1 DEF Run!Accounted
                <5>2. CASE proc'.bad /\ ~ proc.bad
                    <6>1. f \in Run!BadFrames
                        BY <1>1, <1>2, <5>2 DEF Run!BadFrames, Run!BusEvents, Run!StructuredFrames, Run!ServerFrames
                    <6> QED
                        BY <4>9, <6>1
                <5> QED
                    BY <5>1, <5>2
            <4>6. Run!Accounted(m)'
                BY <4>2, <4>3, <4>4, <4>5 DEF Run!Accounted
            <4> QED
                BY <4>0, <4>6
        <3> QED
            BY <3>4, <3>5
    <2> QED
        BY <1>3, <1>4, <1>5, <1>7, <1>8, <1>9, <1>11, <2>1, <2>3, <2>4 DEF Run!IInv
<1> QED
    BY <1>12, <1>13

(* The exit is published behind the last frame. *)
LEMMA MonitorJoinOK ==
    ASSUME Run!RunConstants, Run!IInv, NEW inputOk \in BOOLEAN, Run!MonitorJoin(inputOk)
    PROVE  Run!IInv'
<1>0. /\ Run!TypeOK /\ ~ Run!PipesOpen /\ proc.monitor = "joining" /\ proc \in Run!ProcRecord
      /\ proc' = [proc EXCEPT !.monitor = IF inputOk THEN "done" ELSE "failed"]
      /\ UNCHANGED <<drive, run, exec, cancelled, history>>
    BY DEF Run!IInv, Run!MonitorJoin, Run!TypeOK
<1>1. /\ proc' \in Run!ProcRecord /\ proc'.monitor = IF inputOk THEN "done" ELSE "failed"
      /\ proc'.child = proc.child /\ proc'.tree = proc.tree /\ proc'.reason = proc.reason
      /\ proc'.due = proc.due /\ proc'.bad = proc.bad /\ proc'.greeted = proc.greeted
      /\ proc'.over = proc.over /\ proc'.truncated = proc.truncated
    BY <1>0 DEF Run!ProcRecord
<1>2. Run!MonitorHeld'
    BY <1>0, <1>1 DEF Run!IInv, Run!MonitorHeld, Run!PipesOpen
<1>3. CASE ~ inputOk
    BY <1>0, <1>1, <1>2, <1>3, ProcOnly DEF Run!MonitorJoin
<1>4. CASE inputOk
    <2>0. bus' = Run!Publish(bus, "exited") /\ "exited" \in Run!BusEvents
        BY <1>4 DEF Run!MonitorJoin, Run!BusEvents
    <2>1. Run!TypeOK'
        BY <1>0, <1>1, <2>0, PublishFacts DEF Run!TypeOK
    <2>2. Run!Hopeful' <=> Run!Hopeful
        BY <1>0, <1>1 DEF Run!Hopeful, Run!Unbroken
    <2>3. Run!SubmissionHeld' /\ Run!NoticeHeld' /\ Run!OutcomeHeld'
        BY <1>0, <1>1 DEF Run!IInv, Run!SubmissionHeld, Run!NoticeHeld, Run!Notices, Run!OutcomeHeld, Run!SucceededIsComplete
    <2>4. Run!JobHeld'
        BY <1>0, <1>1, <2>2 DEF Run!IInv, Run!JobHeld, Run!Hopeful, Run!Unbroken
    <2>5. Run!AllHeard' <=> Run!AllHeard
        BY <1>0, <1>1 DEF Run!AllHeard, Run!Heard, Run!Notices, Run!BadQueued
    <2>6. Run!EndHeld'
        BY <1>0, <1>1, <2>2, <2>5 DEF Run!IInv, Run!EndHeld, Run!BadQueued
    <2>7. CASE drive.state # "driving"
        BY <1>0, <1>2, <2>1, <2>3, <2>4, <2>6, <2>7
           DEF Run!IInv, Run!BusHeld, Run!GreetingHeld, Run!FlowHeld, Run!Flowing
    <2>8. CASE drive.state = "driving"
        <3>1. /\ Run!BusHeld'
              /\ bus'.lagged = 0 =>
                     /\ bus.lagged = 0 /\ Run!Unread' = Run!Unread
                     /\ \A i \in 1 .. Run!Unread : bus'.events[i] = bus.events[i]
            BY <1>0, <1>1, <1>4, <2>0, <2>8, PublishedBus
        <3>2. ASSUME Run!Flowing'
              PROVE  /\ Run!Flowing /\ Run!Unread' = Run!Unread
                     /\ \A i \in 1 .. Run!Unread : bus'.events[i] = bus.events[i]
            BY <1>0, <2>2, <3>1, <3>2 DEF Run!Flowing
        <3>3. Run!GreetingHeld'
            BY <1>0, <1>1, <3>2 DEF Run!IInv, Run!GreetingHeld
        <3>4. Run!FlowHeld'
            <4> SUFFICES ASSUME Run!Flowing' PROVE \E n \in 0 .. Run!Unread' : Run!Accounted(n)'
                BY DEF Run!FlowHeld
            <4>1. PICK n \in 0 .. Run!Unread : Run!Accounted(n)
                BY <3>2 DEF Run!IInv, Run!FlowHeld
            <4>0. Run!Unread \in Nat
                BY <1>0 DEF Run!Unread, Run!TypeOK
            <4>2. \A i \in 1 .. n : bus'.events[i] = bus.events[i]
                BY <3>2, <4>0
            <4>3. Run!Greeting(n)' = Run!Greeting(n) /\ Run!Greeting(n) \in Nat
                BY <1>0, <4>2 DEF Run!Greeting
            <4>4. proc.due + Run!Greeting(n) - n \in Int
                BY <1>0, <4>0, <4>3, ProcFields
            <4>5. Run!Heard(proc.due + Run!Greeting(n) - n)'
                BY <1>0, <1>1, <4>1, <4>3, <4>4, SameQueue DEF Run!Accounted
            <4>6. Run!Accounted(n)'
                BY <1>0, <1>1, <3>2, <4>0, <4>1, <4>2, <4>5, SameQueue DEF Run!Accounted
            <4> QED
                BY <3>2, <4>6
        <3> QED
            BY <1>2, <2>1, <2>3, <2>4, <2>6, <3>1, <3>3, <3>4 DEF Run!IInv
    <2> QED
        BY <2>7, <2>8
<1> QED
    BY <1>3, <1>4
-----------------------------------------------------------------------------
(* The driver. *)

(* What a driver that has stopped reading leaves. *)
LEMMA Left ==
    ASSUME Run!IInv, Run!TypeOK', Run!MonitorHeld', Run!SubmissionHeld', Run!JobHeld', Run!NoticeHeld', Run!EndHeld',
           Run!OutcomeHeld', drive'.state # "driving"
    PROVE  Run!IInv'
BY DEF Run!IInv, Run!BusHeld, Run!GreetingHeld, Run!FlowHeld, Run!Flowing

(* Stopping the process sets a flag. *)
LEMMA StopFields ==
    ASSUME Run!TypeOK, proc' \in {proc, [proc EXCEPT !.stop = TRUE]}
    PROVE  /\ proc' \in Run!ProcRecord
           /\ proc'.child = proc.child /\ proc'.tree = proc.tree /\ proc'.reason = proc.reason
           /\ proc'.monitor = proc.monitor /\ proc'.due = proc.due /\ proc'.bad = proc.bad
           /\ proc'.greeted = proc.greeted /\ proc'.over = proc.over
           /\ proc'.truncated = proc.truncated
           /\ Run!MonitorHeld => Run!MonitorHeld'
<1>1. proc \in Run!ProcRecord
    BY DEF Run!TypeOK
<1>2. CASE proc' = proc
    BY <1>1, <1>2 DEF Run!MonitorHeld, Run!PipesOpen
<1>3. CASE proc' = [proc EXCEPT !.stop = TRUE]
    <2>1. proc' \in Run!ProcRecord
        BY <1>1, <1>3 DEF Run!ProcRecord
    <2>2. /\ proc'.child = proc.child /\ proc'.tree = proc.tree /\ proc'.reason = proc.reason
          /\ proc'.monitor = proc.monitor /\ proc'.due = proc.due /\ proc'.bad = proc.bad
          /\ proc'.greeted = proc.greeted /\ proc'.over = proc.over
          /\ proc'.truncated = proc.truncated
        BY <1>1, <1>3 DEF Run!ProcRecord
    <2> QED
        BY <2>1, <2>2 DEF Run!MonitorHeld, Run!PipesOpen
<1> QED
    BY <1>2, <1>3

(* The driver of a static transport sees the cancellation. *)
LEMMA StaticCancelOK ==
    ASSUME Run!IInv, Run!StaticCancel
    PROVE  Run!IInv'
<1>0. /\ Run!TypeOK /\ drive \in Run!DriveRecord /\ proc' = [proc EXCEPT !.stop = TRUE]
      /\ drive' = [drive EXCEPT !.stopping = TRUE]
      /\ UNCHANGED <<bus, run, exec, cancelled, history>>
    BY DEF Run!IInv, Run!TypeOK, Run!StaticCancel, Run!Driving
<1>1. /\ drive' \in Run!DriveRecord /\ drive'.transport = drive.transport
      /\ drive'.state = drive.state /\ drive'.phase = drive.phase /\ drive'.safe = drive.safe
      /\ drive'.fallback = drive.fallback
    BY <1>0 DEF Run!DriveRecord
<1>2. /\ proc' \in Run!ProcRecord
      /\ proc'.monitor = proc.monitor /\ proc'.due = proc.due /\ proc'.bad = proc.bad
      /\ proc'.greeted = proc.greeted /\ proc'.over = proc.over
      /\ proc'.truncated = proc.truncated
      /\ Run!MonitorHeld'
    BY <1>0, StopFields DEF Run!IInv
<1>3. Run!TypeOK'
    BY <1>0, <1>1, <1>2 DEF Run!TypeOK
<1>4. Run!Hopeful' <=> Run!Hopeful
    BY <1>0, <1>2 DEF Run!Hopeful, Run!Unbroken
<1>5. Run!JobHeld'
    BY <1>0, <1>1, <1>2, <1>4 DEF Run!IInv, Run!JobHeld, Run!Hopeful, Run!Unbroken
<1>6. Run!NoticeHeld'
    BY <1>0, <1>1 DEF Run!IInv, Run!NoticeHeld, Run!Notices
<1>7. Run!OutcomeHeld'
    BY <1>0, <1>1, <1>2 DEF Run!IInv, Run!OutcomeHeld, Run!SucceededIsComplete
<1> QED
    BY <1>0, <1>1, <1>2, <1>3, <1>4, <1>5, <1>6, <1>7, SameQueue, Kept

(* The next event of the channel. *)
LEMMA NextFacts ==
    ASSUME Run!IInv, drive.state = "driving", Run!BusReady
    PROVE  /\ Run!Unread \in Nat
           /\ Run!NextEvent = "exited" => bus.lagged = 0 /\ proc.monitor = "done" /\ Run!Unread = 0
           /\ Run!NextEvent # "exited" /\ bus.lagged = 0 =>
                 /\ Run!Unread > 0 /\ Run!NextEvent = bus.events[1]
                 /\ \/ Run!NextEvent \in Run!FramesOf(drive.transport)
                    \/ Run!NextEvent = "frames_dropped" /\ proc.truncated
           /\ drive.transport \in Run!Transports
<1>1. /\ bus.events \in Seq(Run!BusEvents) /\ bus.lagged \in Nat /\ Run!TypeOK /\ Run!BusHeld
      /\ drive.transport \in Run!Transports
    BY DEF Run!IInv, Run!TypeOK, Run!DriveRecord
<1>2. Len(bus.events) \in Nat /\ (bus.events # << >> => Len(bus.events) > 0)
    BY <1>1, TailFacts
<1>3. Run!Unread \in Nat
    BY <1>1, <1>2 DEF Run!Unread, Run!BusHeld
<1>4. bus.lagged > 0 => Run!NextEvent = "frames_dropped"
    BY <1>1, TakenFacts
<1>5. CASE bus.lagged = 0
    <2>1. bus.events # << >> /\ Run!NextEvent = bus.events[1] /\ Len(bus.events) > 0
        BY <1>1, <1>2, <1>5, TakenFacts, TailFacts
    <2>2. Run!Unread > 0 => \/ Run!NextEvent \in Run!FramesOf(drive.transport)
                            \/ Run!NextEvent = "frames_dropped" /\ proc.truncated
        BY <1>1, <1>3, <2>1 DEF Run!BusHeld
    <2>3. Run!Unread > 0 => Run!NextEvent # "exited"
        BY <1>1, <2>2, FrameFacts
    <2>4. ~(Run!Unread > 0) => proc.monitor = "done" /\ Run!NextEvent = "exited"
        BY <1>1, <1>2, <1>3, <2>1 DEF Run!Unread, Run!BusHeld
    <2> QED
        BY <1>1, <1>3, <1>5, <2>1, <2>2, <2>3, <2>4
<1> QED
    BY <1>1, <1>3, <1>4, <1>5

(* The channel behind a frame that was read. *)
LEMMA ReadBus ==
    ASSUME Run!IInv, drive.state = "driving", Run!BusReady, Run!NextEvent # "exited", bus' = Run!Taken,
           drive'.transport = drive.transport, proc'.monitor = proc.monitor,
           proc'.truncated = proc.truncated
    PROVE  /\ Run!BusHeld' /\ bus' \in [events : Seq(Run!BusEvents), lagged : Nat]
           /\ bus.lagged = 0 =>
                 /\ Run!Unread' = Run!Unread - 1
                 /\ \A i \in 1 .. Run!Unread - 1 : bus'.events[i] = bus.events[i + 1]
<1>1. /\ bus.events \in Seq(Run!BusEvents) /\ bus.lagged \in Nat /\ Run!TypeOK /\ Run!BusHeld
    BY DEF Run!IInv, Run!TypeOK
<1>2. bus' \in [events : Seq(Run!BusEvents), lagged : Nat]
    BY <1>1, TakenFacts
<1>3. CASE bus.lagged > 0
    <2>1. bus'.events = bus.events
        BY <1>1, <1>3, TakenFacts
    <2>2. Run!Unread' = Run!Unread
        BY <2>1 DEF Run!Unread
    <2> QED
        BY <1>1, <1>2, <1>3, <2>1, <2>2 DEF Run!BusHeld
<1>4. CASE bus.lagged = 0
    <2>1. bus.events # << >> /\ bus'.events = Tail(bus.events)
        BY <1>1, <1>4, TakenFacts
    <2>2. /\ Len(bus.events) \in Nat /\ Len(bus'.events) = Len(bus.events) - 1
          /\ \A i \in 1 .. Len(bus.events) - 1 : bus'.events[i] = bus.events[i + 1]
        BY <1>1, <2>1, TailFacts
    <2>3. Run!Unread' = Run!Unread - 1
        BY <2>2 DEF Run!Unread
    <2>4. Run!Unread \in Nat /\ Run!Unread > 0 /\ Run!Unread <= Len(bus.events)
        BY <1>4, <2>2, NextFacts DEF Run!Unread
    <2>5. \A i \in 1 .. Run!Unread - 1 : bus'.events[i] = bus.events[i + 1]
        BY <2>2, <2>4
    <2>6. \A i \in 1 .. Run!Unread - 1 : \/ bus'.events[i] \in Run!FramesOf(drive.transport)
                                         \/ bus'.events[i] = "frames_dropped" /\ proc'.truncated
        <3>1. ASSUME NEW i \in 1 .. Run!Unread - 1
              PROVE  \/ bus'.events[i] \in Run!FramesOf(drive.transport)
                     \/ bus'.events[i] = "frames_dropped" /\ proc'.truncated
            <4>1. i + 1 \in 1 .. Run!Unread
                BY <2>4
            <4> QED
                BY <1>1, <2>5, <4>1 DEF Run!BusHeld
        <3> QED
            BY <3>1
    <2>8. 1 .. Run!Unread' = 1 .. Run!Unread - 1
        BY <2>3
    <2>7. ASSUME proc'.monitor = "done"
          PROVE  bus'.events # << >> /\ bus'.events[Len(bus'.events)] = "exited"
        <3>1. Len(bus.events) > 1 /\ bus.events[Len(bus.events)] = "exited"
            BY <1>1, <2>2, <2>4, <2>7 DEF Run!Unread, Run!BusHeld
        <3>2. Len(bus'.events) > 0
            BY <2>2, <3>1
        <3>3. bus'.events[Len(bus.events) - 1] = bus.events[Len(bus.events)]
            BY <2>2, <3>1
        <3> QED
            BY <1>2, <2>2, <3>1, <3>2, <3>3
    <2> QED
        BY <1>2, <2>3, <2>5, <2>6, <2>7, <2>8 DEF Run!BusHeld
<1> QED
    BY <1>1, <1>2, <1>3, <1>4

(* A frame that was read is heard, unless it is the answer to initialize.  *)
LEMMA ReadFlow ==
    ASSUME Run!IInv, drive.state = "driving", Run!BusReady, Run!NextEvent # "exited", bus' = Run!Taken,
           Run!NextEvent \notin Run!TurnEnds,
           proc'.due = proc.due, proc'.bad = proc.bad, proc'.greeted = proc.greeted,
           proc'.over = proc.over, proc'.truncated = proc.truncated,
           proc'.monitor = proc.monitor, drive'.transport = drive.transport,
           Run!Hopeful' => Run!Hopeful /\ Run!NextEvent # "frames_dropped",
           Run!Hopeful' /\ (Run!BadQueued \/ Run!NextEvent \in Run!BadFrames) => Run!BadQueued',
           NEW k \in {0, 1},
           \A h \in Int : Run!Hopeful' /\ Run!Heard(h) => Run!Heard(h + k)',
           \/ k = 1 /\ drive'.phase = drive.phase /\ Run!NextEvent # "response"
           \/ k = 1 /\ drive.phase # "initialize" /\ drive'.phase # "initialize"
           \/ /\ k = 0 /\ Run!NextEvent = "response"
              /\ drive.phase = "initialize" /\ drive'.phase # "initialize"
    PROVE  Run!GreetingHeld' /\ Run!FlowHeld'
<1> SUFFICES ASSUME Run!Flowing' PROVE Run!GreetingHeld' /\ Run!FlowHeld'
    BY DEF Run!GreetingHeld, Run!FlowHeld
<1>1. Run!Hopeful' /\ Run!Hopeful /\ Run!NextEvent # "frames_dropped"
    BY DEF Run!Flowing
<1>2. bus.lagged = 0 /\ Run!Flowing
    <2>1. bus.lagged \in Nat /\ Run!TypeOK
        BY DEF Run!IInv, Run!TypeOK
    <2> QED
        BY <1>1, <2>1, TakenFacts DEF Run!Flowing
<1>3. Run!Unread \in Nat /\ Run!Unread > 0 /\ Run!NextEvent = bus.events[1]
    BY <1>2, NextFacts
<1>4. Run!Unread' = Run!Unread - 1 /\ \A i \in 1 .. Run!Unread - 1 : bus'.events[i] = bus.events[i + 1]
    BY <1>2, ReadBus
<1>5. ASSUME NEW n \in 1 .. Run!Unread, NEW m \in Nat, n = m + 1
      PROVE  /\ (\E i \in 1 .. n : bus.events[i] = "response") <=>
                    (Run!NextEvent = "response" \/ \E i \in 1 .. m : bus'.events[i] = "response")
             /\ (\E i \in 1 .. n : bus.events[i] \in Run!BadFrames) <=>
                    (Run!NextEvent \in Run!BadFrames \/ \E i \in 1 .. m : bus'.events[i] \in Run!BadFrames)
    <2>1. \A i \in 1 .. m : i + 1 \in 1 .. n /\ bus'.events[i] = bus.events[i + 1]
        BY <1>3, <1>4, <1>5
    <2>2. \A i \in 1 .. n : i = 1 \/ (i - 1 \in 1 .. m /\ bus'.events[i - 1] = bus.events[i])
        <3> SUFFICES ASSUME NEW i \in 1 .. n, i # 1
                     PROVE  i - 1 \in 1 .. m /\ bus'.events[i - 1] = bus.events[i]
            OBVIOUS
        <3>1. i - 1 \in 1 .. m /\ (i - 1) + 1 = i
            BY <1>3, <1>5
        <3> QED
            BY <2>1, <3>1
    <2>3. 1 \in 1 .. n
        BY <1>3
    <2> QED
        BY <1>3, <2>1, <2>2, <2>3
<1>6. Run!GreetingHeld'
    <2> SUFFICES ASSUME drive.transport = "server"
                 PROVE  proc'.greeted <=> \/ drive'.phase # "initialize"
                                          \/ \E i \in 1 .. Run!Unread' : bus'.events[i] = "response"
        BY DEF Run!GreetingHeld
    <2>1. proc.greeted <=> \/ drive.phase # "initialize"
                           \/ \E i \in 1 .. Run!Unread : bus.events[i] = "response"
        BY <1>2 DEF Run!IInv, Run!GreetingHeld
    <2>2. (\E i \in 1 .. Run!Unread : bus.events[i] = "response") <=>
             (Run!NextEvent = "response" \/ \E i \in 1 .. Run!Unread' : bus'.events[i] = "response")
        <3>1. Run!Unread \in 1 .. Run!Unread /\ Run!Unread - 1 \in Nat /\ Run!Unread = (Run!Unread - 1) + 1
            BY <1>3
        <3>2. (\E i \in 1 .. Run!Unread : bus.events[i] = "response") <=>
                 (Run!NextEvent = "response" \/ \E i \in 1 .. Run!Unread - 1 : bus'.events[i] = "response")
            BY <1>5, <3>1
        <3> QED
            BY <1>4, <3>2
    <2> QED
        BY <2>1, <2>2
<1>7. PICK n \in 0 .. Run!Unread : Run!Accounted(n)
    BY <1>2 DEF Run!IInv, Run!FlowHeld
<1>8. n > 0
    BY <1>3, <1>7 DEF Run!Accounted
<1>9. PICK m \in Nat : n = m + 1
    <2>1. n - 1 \in Nat /\ n = (n - 1) + 1
        BY <1>3, <1>8
    <2> QED
        BY <2>1
<1>10. n \in 1 .. Run!Unread /\ m \in 0 .. Run!Unread' /\ proc.due \in Nat
    BY <1>3, <1>4, <1>8, <1>9, ProcFields DEF Run!IInv
<1>11. \A i \in 1 .. m : i + 1 \in 1 .. n /\ bus'.events[i] = bus.events[i + 1]
    BY <1>3, <1>4, <1>9, <1>10
<1>12. proc'.over => m > 0 /\ bus'.events[m] \in Run!TurnEnds
    <2> SUFFICES ASSUME proc.over PROVE m > 0 /\ bus'.events[m] \in Run!TurnEnds
        OBVIOUS
    <2>1. bus.events[n] \in Run!TurnEnds
        BY <1>7 DEF Run!Accounted
    <2>2. n # 1
        BY <1>3, <2>1
    <2>3. m > 0 /\ m \in 1 .. m
        BY <1>9, <2>2
    <2> QED
        BY <1>9, <1>11, <2>1, <2>3
<1>13. ~ proc'.over => m = Run!Unread'
    BY <1>3, <1>4, <1>7, <1>9 DEF Run!Accounted
<1>14. \A i \in 1 .. m : bus'.events[i] \in Run!TurnEnds => proc'.over /\ i = m
    <2> SUFFICES ASSUME NEW i \in 1 .. m, bus'.events[i] \in Run!TurnEnds PROVE proc.over /\ i = m
        OBVIOUS
    <2>1. i + 1 \in 1 .. n /\ bus.events[i + 1] \in Run!TurnEnds
        BY <1>11
    <2>2. proc.over /\ i + 1 = n
        BY <1>7, <2>1 DEF Run!Accounted
    <2> QED
        BY <1>9, <2>2
<1>15. Run!Heard(proc.due + Run!Greeting(m) - m)'
    <2>1. Run!Greeting(n) \in {0, 1} /\ Run!Greeting(m)' \in {0, 1}
        BY DEF Run!Greeting
    <2>2. (\E i \in 1 .. n : bus.events[i] = "response") <=>
             (Run!NextEvent = "response" \/ \E i \in 1 .. m : bus'.events[i] = "response")
        BY <1>5, <1>9, <1>10
    <2>3. Run!Greeting(m)' + 1 = Run!Greeting(n) + k
        BY <2>2 DEF Run!Greeting
    <2>4. PICK h \in Int : h = proc.due + Run!Greeting(n) - n
        BY <1>10, <2>1
    <2>5. Run!Heard(h + k)'
        BY <1>1, <1>7, <2>4 DEF Run!Accounted
    <2>6. h + k = proc'.due + Run!Greeting(m)' - m
        BY <1>9, <1>10, <2>1, <2>3, <2>4
    <2> QED
        BY <2>5, <2>6
<1>16. proc'.bad => Run!BadQueued' \/ \E i \in 1 .. m : bus'.events[i] \in Run!BadFrames
    BY <1>1, <1>5, <1>7, <1>9, <1>10 DEF Run!Accounted
<1>17. Run!Accounted(m)'
    BY <1>12, <1>13, <1>14, <1>15, <1>16 DEF Run!Accounted
<1> QED
    BY <1>6, <1>10, <1>17 DEF Run!FlowHeld

(* add_dropped keeps the queue. *)
LEMMA AddDroppedFacts ==
    ASSUME NEW j \in Run!JobRecord, NEW n \in Nat
    PROVE  /\ Run!AddDropped(j, n) \in Run!JobRecord
           /\ Run!AddDropped(j, n).loss /\ Run!AddDropped(j, n).queue = j.queue
           /\ Run!AddDropped(j, n).result = j.result
<1>1. j.dropped + n \in Nat
    BY DEF Run!JobRecord
<1> DEFINE d == j.dropped + n
<1>2. Run!AddDropped(j, n) = [j EXCEPT !.dropped = d, !.loss = TRUE, !.cancel = TRUE]
    BY DEF Run!AddDropped
<1> HIDE DEF d
<1>3. d \in Nat
    BY <1>1 DEF d
<1>4. [j EXCEPT !.dropped = d, !.loss = TRUE, !.cancel = TRUE] \in Run!JobRecord
    BY <1>3 DEF Run!JobRecord
<1>5. /\ [j EXCEPT !.dropped = d, !.loss = TRUE, !.cancel = TRUE].loss = TRUE
      /\ [j EXCEPT !.dropped = d, !.loss = TRUE, !.cancel = TRUE].queue = j.queue
      /\ [j EXCEPT !.dropped = d, !.loss = TRUE, !.cancel = TRUE].result = j.result
    BY DEF Run!JobRecord
<1> QED
    BY <1>2, <1>4, <1>5

(* A frame was read and the driver goes on. *)
LEMMA DrivingOn ==
    ASSUME Run!IInv, drive.state = "driving", Run!BusReady, Run!NextEvent # "exited",
           Run!NextEvent \notin Run!TurnEnds, bus' = Run!Taken, UNCHANGED <<exec, cancelled>>,
           proc' \in {proc, [proc EXCEPT !.stop = TRUE]},
           drive' \in Run!DriveRecord, drive'.state = "driving",
           drive'.transport = drive.transport, drive'.fallback = drive.fallback,
           history' \in [submitted : Nat, unconfirmed : BOOLEAN, processes : {1, 2}],
           Run!SubmissionHeld',
           run' \in Run!JobRecord, run'.result = run.result,
           run'.limited \/ run'.dropped > 0 => run'.loss,
           run'.cancel => run.cancel \/ run'.loss,
           Run!NextEvent = "frames_dropped" => run'.loss,
           NEW e \in Run!Events \ {"fallback"},
           Run!NextEvent \in Run!BadFrames => e \in {"error", "quota", "malformed"},
           \/ run'.loss /\ run'.queue = run.queue
           \/ /\ ~ run.loss /\ run'.queue = Append(run.queue, e)
              /\ \/ drive'.phase = drive.phase /\ Run!NextEvent # "response"
                 \/ drive.phase # "initialize" /\ drive'.phase # "initialize"
           \/ /\ ~ run.loss /\ run'.queue = run.queue /\ Run!NextEvent = "response"
              /\ drive.phase = "initialize" /\ drive'.phase # "initialize"
    PROVE  Run!IInv'
<1>0. /\ Run!TypeOK /\ Run!MonitorHeld /\ Run!JobHeld /\ Run!NoticeHeld /\ Run!OutcomeHeld /\ Run!EndHeld
      /\ exec \in Run!ExecRecord /\ cancelled \in BOOLEAN
    BY DEF Run!IInv, Run!TypeOK
<1>1. /\ proc' \in Run!ProcRecord
      /\ proc'.child = proc.child /\ proc'.tree = proc.tree /\ proc'.reason = proc.reason
      /\ proc'.monitor = proc.monitor /\ proc'.due = proc.due /\ proc'.bad = proc.bad
      /\ proc'.greeted = proc.greeted /\ proc'.over = proc.over
      /\ proc'.truncated = proc.truncated
      /\ Run!MonitorHeld'
    BY <1>0, StopFields
<1>2. Run!BusHeld' /\ bus' \in [events : Seq(Run!BusEvents), lagged : Nat]
    BY <1>1, ReadBus
<1>3. Run!TypeOK'
    BY <1>0, <1>1, <1>2 DEF Run!TypeOK
<1>4. Run!Hopeful' => Run!Hopeful /\ ~ run'.loss /\ Run!NextEvent # "frames_dropped"
    BY <1>1 DEF Run!Hopeful, Run!Unbroken
<1>5. exec.state # "waiting" \/ ~ Run!Hopeful
    BY <1>0 DEF Run!JobHeld, Run!Hopeful, Run!Unbroken
<1>6. Run!JobHeld'
    <2>1. run'.cancel => ~ Run!Unbroken'
        BY <1>0, <1>1, <1>4 DEF Run!JobHeld, Run!Hopeful, Run!Unbroken
    <2>2. run.result = "none"
        BY <1>0 DEF Run!JobHeld, Run!Hopeful, Run!Unbroken
    <2> QED
        BY <1>0, <1>4, <1>5, <2>1, <2>2 DEF Run!JobHeld, Run!Hopeful, Run!Unbroken
<1>7. Run!Notices' = Run!Notices
    <2>1. CASE run'.queue = run.queue
        BY <2>1 DEF Run!Notices
    <2>2. CASE run'.queue = Append(run.queue, e)
        BY <1>0, <2>2, QueueAppended
    <2> QED
        BY <2>1, <2>2
<1>8. Run!NoticeHeld'
    BY <1>0, <1>7 DEF Run!NoticeHeld
<1>9. Run!OutcomeHeld'
    BY <1>0 DEF Run!OutcomeHeld, Run!SucceededIsComplete
<1>10. Run!EndHeld'
    BY <1>0, <1>1 DEF Run!EndHeld
<1>11. Run!NextEvent = "response" => Run!NextEvent \notin Run!BadFrames
    BY DEF Run!BadFrames
<1>12. Run!GreetingHeld' /\ Run!FlowHeld'
    <2>1. CASE run'.loss
        BY <1>4, <2>1 DEF Run!GreetingHeld, Run!FlowHeld, Run!Flowing
    <2>2. CASE /\ run'.queue = Append(run.queue, e)
               /\ \/ drive'.phase = drive.phase /\ Run!NextEvent # "response"
                  \/ drive.phase # "initialize" /\ drive'.phase # "initialize"
        <3>1. /\ \A h \in Int : Run!Heard(h) => Run!Heard(h + 1)'
              /\ Run!BadQueued => Run!BadQueued'
              /\ e \in {"error", "quota", "malformed"} => Run!BadQueued'
            BY <1>0, <2>2, QueueAppended
        <3> QED
            BY <1>1, <1>4, <2>2, <3>1, ReadFlow
    <2>3. CASE /\ run'.queue = run.queue /\ Run!NextEvent = "response"
               /\ drive.phase = "initialize" /\ drive'.phase # "initialize"
        <3>1. /\ \A h \in Int : Run!Heard(h) => Run!Heard(h + 0)'
              /\ Run!BadQueued => Run!BadQueued'
            <4>1. ASSUME NEW h \in Int, Run!Heard(h) PROVE Run!Heard(h + 0)'
                BY <2>3, <4>1, SameQueue
            <4> QED
                BY <2>3, <4>1, SameQueue
        <3> QED
            BY <1>1, <1>4, <1>11, <2>3, <3>1, ReadFlow
    <2> QED
        BY <2>1, <2>2, <2>3
<1> QED
    BY <1>1, <1>2, <1>3, <1>6, <1>8, <1>9, <1>10, <1>12 DEF Run!IInv

(* The driver of a static transport reads the next event. *)
LEMMA StaticEventOK ==
    ASSUME Run!RunConstants, Run!IInv, Run!StaticEvent
    PROVE  Run!IInv'
<1>0. /\ Run!TypeOK /\ Run!MonitorHeld /\ Run!SubmissionHeld /\ Run!JobHeld /\ Run!NoticeHeld /\ Run!OutcomeHeld /\ Run!EndHeld
      /\ drive \in Run!DriveRecord /\ run \in Run!JobRecord /\ exec \in Run!ExecRecord /\ cancelled \in BOOLEAN
      /\ history \in [submitted : Nat, unconfirmed : BOOLEAN, processes : {1, 2}]
      /\ drive.state = "driving" /\ drive.transport \in {"structured", "agy"} /\ Run!BusReady
      /\ bus' = Run!Taken /\ UNCHANGED <<exec, cancelled, history>>
    BY DEF Run!IInv, Run!TypeOK, Run!StaticEvent, Run!Driving, Run!Static
<1>1. CASE /\ Run!NextEvent = "frames_dropped" /\ run' = Run!AddDropped(run, Run!Lost)
           /\ drive' = [drive EXCEPT !.stopping = TRUE] /\ proc' = [proc EXCEPT !.stop = TRUE]
    <2>1. /\ drive' \in Run!DriveRecord /\ drive'.state = "driving" /\ drive'.phase = drive.phase
          /\ drive'.transport = drive.transport /\ drive'.fallback = drive.fallback
          /\ drive'.safe = drive.safe
        BY <1>0, <1>1 DEF Run!DriveRecord
    <2>2. Run!SubmissionHeld'
        BY <1>0, <2>1 DEF Run!SubmissionHeld
    <2>3. run' \in Run!JobRecord /\ run'.loss /\ run'.queue = run.queue /\ run'.result = run.result
        BY <1>0, <1>1, AddDroppedFacts, TakenFacts
    <2>4. "output" \in Run!Events \ {"fallback"} /\ Run!NextEvent \notin Run!BadFrames
          /\ Run!NextEvent \notin Run!TurnEnds /\ Run!NextEvent # "exited"
        BY <1>1 DEF Run!Events, Run!StructuredFrames, Run!BadFrames, Run!TurnEnds
    <2> QED
        BY <1>0, <1>1, <2>1, <2>2, <2>3, <2>4, DrivingOn
<1>2. CASE /\ Run!NextEvent \notin {"frames_dropped", "exited"} /\ run' = Run!TrySend(run, Run!NextEvent)
           /\ UNCHANGED <<drive, proc>>
    <2>1. Run!NextEvent \in Run!FramesOf(drive.transport) /\ drive.transport \in Run!Transports \ {"server"}
        <3>1. bus.lagged = 0
            BY <1>0, <1>2, TakenFacts DEF Run!TypeOK
        <3> QED
            BY <1>0, <1>2, <3>1, NextFacts DEF Run!Transports
    <2>2. Run!NextEvent \in {"output", "completed", "error", "quota", "malformed"}
        BY <2>1, FrameFacts
    <2>3. /\ Run!NextEvent \in Run!Events \ {"fallback"} /\ Run!NextEvent \notin Run!TurnEnds /\ Run!NextEvent # "response"
          /\ Run!NextEvent \in Run!BadFrames => Run!NextEvent \in {"error", "quota", "malformed"}
        BY <2>2 DEF Run!Events, Run!StructuredFrames, Run!TurnEnds, Run!BadFrames
    <2>4. /\ run' \in Run!JobRecord /\ run'.result = run.result
          /\ run'.limited \/ run'.dropped > 0 => run'.loss
          /\ run'.cancel => run.cancel \/ run'.loss
          /\ \/ run'.loss /\ run'.queue = run.queue
             \/ ~ run.loss /\ run'.queue = Append(run.queue, Run!NextEvent)
        BY <1>0, <1>2, <2>3, TrySendFacts DEF Run!JobHeld, Run!Hopeful, Run!Unbroken
    <2>5. Run!SubmissionHeld'
        BY <1>0, <1>2 DEF Run!SubmissionHeld
    <2> QED
        BY <1>0, <1>2, <2>3, <2>4, <2>5, DrivingOn
<1>3. CASE /\ Run!NextEvent = "exited"
           /\ run' = IF drive.transport = "agy" THEN Run!TrySend(run, Run!AgyExit(proc.child)) ELSE run
           /\ drive' = [drive EXCEPT !.state = "finishing"] /\ UNCHANGED proc
    <2>1. /\ drive' \in Run!DriveRecord /\ drive'.state = "finishing" /\ drive'.phase = drive.phase
          /\ drive'.transport = drive.transport /\ drive'.fallback = drive.fallback
          /\ drive'.safe = drive.safe
        BY <1>0, <1>3 DEF Run!DriveRecord
    <2>2. bus.lagged = 0 /\ proc.monitor = "done" /\ Run!Unread = 0
        BY <1>0, <1>3, NextFacts
    <2>3. Run!AgyExit(proc.child) \in Run!Events \ {"fallback"}
        <3>1. proc.child \in {"ok", "bad", "killed"}
            BY <1>0, <2>2, ProcFields DEF Run!MonitorHeld
        <3> QED
            BY <3>1 DEF Run!AgyExit, Run!Events, Run!StructuredFrames
    <2> DEFINE e == Run!AgyExit(proc.child)
    <2>4. /\ run' \in Run!JobRecord /\ run'.result = run.result
          /\ run'.limited \/ run'.dropped > 0 => run'.loss
          /\ run'.cancel => run.cancel \/ run'.loss
          /\ \/ run'.loss /\ run'.queue = run.queue
             \/ /\ ~ run.loss
                /\ run'.queue = IF drive.transport = "agy" THEN Append(run.queue, e) ELSE run.queue
        <3>1. CASE drive.transport = "agy"
            BY <1>0, <1>3, <2>3, <3>1, TrySendFacts DEF Run!JobHeld, Run!Hopeful, Run!Unbroken
        <3>2. CASE drive.transport # "agy"
            BY <1>0, <1>3, <3>2 DEF Run!JobHeld, Run!Hopeful, Run!Unbroken
        <3> QED
            BY <3>1, <3>2
    <2> HIDE DEF e
    <2>5. Run!Hopeful' => Run!Hopeful /\ ~ run'.loss
        BY <1>0, <1>3, <2>4 DEF Run!Hopeful, Run!Unbroken
    <2>6. bus' \in [events : Seq(Run!BusEvents), lagged : Nat]
        BY <1>0, TakenFacts
    <2>7. Run!TypeOK'
        BY <1>0, <1>3, <2>1, <2>4, <2>6 DEF Run!TypeOK
    <2>8. Run!MonitorHeld' /\ Run!SubmissionHeld'
        BY <1>0, <1>3, <2>1 DEF Run!MonitorHeld, Run!PipesOpen, Run!SubmissionHeld
    <2>9. Run!JobHeld'
        <3>1. run'.cancel => ~ Run!Unbroken'
            BY <1>0, <1>3, <2>4, <2>5 DEF Run!JobHeld, Run!Hopeful, Run!Unbroken
        <3>2. exec.state = "waiting" => ~ Run!Hopeful
            BY <1>0 DEF Run!JobHeld, Run!Hopeful, Run!Unbroken
        <3> QED
            BY <1>0, <2>1, <2>4, <2>5, <3>1, <3>2 DEF Run!JobHeld, Run!Hopeful, Run!Unbroken
    <2>10. Run!Notices' = Run!Notices
        <3>1. CASE run'.queue = run.queue
            BY <3>1 DEF Run!Notices
        <3>2. CASE run'.queue = Append(run.queue, e)
            BY <1>0, <2>3, <3>2, QueueAppended DEF e
        <3> QED
            BY <2>4, <3>1, <3>2
    <2>11. Run!NoticeHeld'
        BY <1>0, <2>1, <2>10 DEF Run!NoticeHeld
    <2>12. Run!OutcomeHeld'
        BY <1>0 DEF Run!OutcomeHeld, Run!SucceededIsComplete
    <2>13. ASSUME Run!Hopeful' PROVE Run!AllHeard'
        <3>1. Run!Flowing
            BY <1>0, <2>2, <2>5, <2>13 DEF Run!Flowing
        <3>2. PICK n \in 0 .. Run!Unread : Run!Accounted(n)
            BY <3>1 DEF Run!IInv, Run!FlowHeld
        <3>3. n = 0 /\ proc.due \in Nat
            BY <1>0, <2>2, <3>2, ProcFields
        <3>4. Run!Greeting(n) = 0
            BY <3>3 DEF Run!Greeting
        <3>5. PICK h \in Int : h = proc.due + Run!Greeting(n) - n
            BY <3>3, <3>4
        <3>6. Run!Heard(h) /\ h = proc.due
            BY <3>2, <3>3, <3>4, <3>5 DEF Run!Accounted
        <3>7. proc.bad => Run!BadQueued
            BY <3>2, <3>3 DEF Run!Accounted
        <3>8. CASE drive.transport = "agy"
            <4>1. run'.queue = Append(run.queue, e)
                BY <2>4, <2>5, <2>13, <3>8
            <4>2. Run!Heard(h + 1)' /\ (Run!BadQueued => Run!BadQueued')
                BY <1>0, <2>3, <3>6, <4>1, QueueAppended DEF e
            <4> QED
                BY <1>3, <2>1, <3>6, <3>7, <3>8, <4>2 DEF Run!AllHeard
        <3>9. CASE drive.transport # "agy"
            <4>1. run'.queue = run.queue
                BY <2>4, <3>9
            <4>2. Run!Heard(h)' /\ (Run!BadQueued => Run!BadQueued') /\ h = proc.due + 0
                BY <1>0, <3>3, <3>6, <4>1, SameQueue
            <4> QED
                BY <1>3, <2>1, <3>7, <3>9, <4>2 DEF Run!AllHeard
        <3> QED
            BY <3>8, <3>9
    <2>14. Run!EndHeld'
        BY <1>0, <1>3, <2>1, <2>2, <2>13 DEF Run!EndHeld
    <2> QED
        BY <2>1, <2>7, <2>8, <2>9, <2>11, <2>12, <2>14, Left
<1> QED
    BY <1>1, <1>2, <1>3 DEF Run!StaticEvent

(* The channel of a static transport is closed. *)
LEMMA StaticClosedOK ==
    ASSUME Run!IInv, Run!StaticClosed
    PROVE  Run!IInv'
<1>0. /\ Run!TypeOK /\ Run!MonitorHeld /\ Run!SubmissionHeld /\ Run!JobHeld /\ Run!NoticeHeld /\ Run!OutcomeHeld /\ Run!EndHeld
      /\ Run!BusHeld /\ drive \in Run!DriveRecord /\ drive.state = "driving" /\ Run!BusClosed
      /\ drive.transport \in {"structured", "agy"}
      /\ drive' = [drive EXCEPT !.state = "finishing"]
      /\ UNCHANGED <<proc, bus, run, exec, cancelled, history>>
    BY DEF Run!IInv, Run!TypeOK, Run!StaticClosed, Run!Driving, Run!Static
<1>1. /\ drive' \in Run!DriveRecord /\ drive'.state = "finishing" /\ drive'.phase = drive.phase
      /\ drive'.transport = drive.transport /\ drive'.fallback = drive.fallback
      /\ drive'.safe = drive.safe
    BY <1>0 DEF Run!DriveRecord
<1>2. proc.monitor = "failed"
    BY <1>0 DEF Run!BusClosed, Run!BusReady, Run!BusHeld
<1>3. Run!TypeOK' /\ Run!MonitorHeld' /\ Run!SubmissionHeld'
    BY <1>0, <1>1 DEF Run!TypeOK, Run!MonitorHeld, Run!PipesOpen, Run!SubmissionHeld
<1>4. Run!JobHeld' /\ Run!NoticeHeld' /\ Run!OutcomeHeld'
    BY <1>0, <1>1 DEF Run!JobHeld, Run!Hopeful, Run!NoticeHeld, Run!Notices, Run!OutcomeHeld, Run!SucceededIsComplete, Run!Unbroken
<1>5. Run!EndHeld'
    BY <1>0, <1>1, <1>2 DEF Run!EndHeld
<1> QED
    BY <1>1, <1>3, <1>4, <1>5, Left

(* app_server_failure: nothing is claimed of a run whose server failed but *)
(* that a safe failure had not handed the work over.                       *)
LEMMA FailOK ==
    ASSUME Run!IInv, drive.state = "driving", drive.transport = "server",
           proc' \in {proc, [proc EXCEPT !.stop = TRUE]},
           bus' \in [events : Seq(Run!BusEvents), lagged : Nat],
           NEW d \in Run!DriveRecord, d.transport = "server", d.fallback = drive.fallback,
           NEW safe \in BOOLEAN, safe => history.submitted = 0,
           drive' = [d EXCEPT !.state = "failing", !.safe = safe],
           run' \in Run!JobRecord, run'.queue = run.queue, run'.result = run.result,
           run' = run \/ run'.loss, UNCHANGED <<exec, cancelled, history>>
    PROVE  Run!IInv'
<1>0. /\ Run!TypeOK /\ Run!MonitorHeld /\ Run!SubmissionHeld /\ Run!JobHeld /\ Run!NoticeHeld /\ Run!OutcomeHeld /\ Run!EndHeld
    BY DEF Run!IInv
<1>1. /\ drive' \in Run!DriveRecord /\ drive'.state = "failing" /\ drive'.safe = safe
      /\ drive'.transport = "server" /\ drive'.fallback = drive.fallback
    BY DEF Run!DriveRecord
<1>2. /\ proc' \in Run!ProcRecord /\ proc'.truncated = proc.truncated /\ proc'.over = proc.over
      /\ Run!MonitorHeld'
    BY <1>0, StopFields
<1>3. Run!TypeOK'
    BY <1>0, <1>1, <1>2 DEF Run!TypeOK
<1>4. Run!SubmissionHeld'
    BY <1>0, <1>1 DEF Run!SubmissionHeld
<1>5. Run!JobHeld'
    <2>1. run.result = "none"
        BY <1>0 DEF Run!JobHeld, Run!Hopeful, Run!Unbroken
    <2>2. CASE run' = run
        BY <1>0, <1>1, <1>2, <2>1, <2>2 DEF Run!JobHeld, Run!Hopeful, Run!Unbroken
    <2>3. CASE run'.loss
        BY <1>0, <1>1, <2>1, <2>3 DEF Run!JobHeld, Run!Hopeful, Run!Unbroken
    <2> QED
        BY <2>2, <2>3
<1>6. Run!NoticeHeld'
    BY <1>0, <1>1 DEF Run!NoticeHeld, Run!Notices
<1>7. Run!OutcomeHeld'
    BY <1>0 DEF Run!OutcomeHeld, Run!SucceededIsComplete
<1>8. Run!EndHeld'
    BY <1>1 DEF Run!EndHeld
<1> QED
    BY <1>1, <1>2, <1>3, <1>4, <1>5, <1>6, <1>7, <1>8, Left

(* can_fallback: the work has not been handed over. *)
LEMMA FallbackFacts ==
    ASSUME Run!IInv, drive.state = "driving"
    PROVE  Run!CanFallback(drive) \in BOOLEAN /\ (Run!CanFallback(drive) => history.submitted = 0)
BY DEF Run!IInv, Run!SubmissionHeld, Run!CanFallback, Run!TypeOK, Run!DriveRecord

(* The App Server session is cancelled, times out or loses its process. *)
LEMMA ServerFailsOK ==
    ASSUME Run!IInv, Run!ServerCancel \/ Run!ServerClosed
    PROVE  Run!IInv'
<1>0. /\ drive.state = "driving" /\ drive.transport = "server" /\ drive \in Run!DriveRecord
      /\ run \in Run!JobRecord /\ bus \in [events : Seq(Run!BusEvents), lagged : Nat]
      /\ UNCHANGED <<bus, run, exec, cancelled, history>>
    BY DEF Run!IInv, Run!TypeOK, Run!ServerCancel, Run!ServerClosed, Run!Driving
<1>1. CASE Run!ServerCancel
    <2>1. /\ drive' = [drive EXCEPT !.state = "failing", !.safe = FALSE]
          /\ proc' = [proc EXCEPT !.stop = TRUE]
        BY <1>1 DEF Run!ServerCancel, Run!Fail
    <2> QED
        BY <1>0, <2>1, FailOK
<1>2. CASE Run!ServerClosed
    <2>1. /\ drive' = [drive EXCEPT !.state = "failing", !.safe = Run!CanFallback(drive)]
          /\ proc' = [proc EXCEPT !.stop = TRUE]
        BY <1>2 DEF Run!ServerClosed, Run!Fail
    <2> QED
        BY <1>0, <2>1, FallbackFacts, FailOK
<1> QED
    BY <1>1, <1>2

(* handle_response. *)
LEMMA HandleResponseOK ==
    ASSUME Run!RunConstants, Run!IInv, drive.state = "driving", drive.transport = "server",
           Run!BusReady, bus' = Run!Taken, UNCHANGED <<exec, cancelled>>,
           Run!NextEvent = "response", Run!HandleResponse
    PROVE  Run!IInv'
<1>0. /\ Run!TypeOK /\ Run!SubmissionHeld /\ Run!JobHeld /\ drive \in Run!DriveRecord /\ run \in Run!JobRecord
      /\ history \in [submitted : Nat, unconfirmed : BOOLEAN, processes : {1, 2}]
      /\ bus' \in [events : Seq(Run!BusEvents), lagged : Nat]
    BY TakenFacts DEF Run!IInv, Run!TypeOK
<1>1. DOMAIN Run!NextPhase = {"initialize", "thread", "turn"}
    BY DEF Run!NextPhase
<1>2. CASE drive.phase \notin DOMAIN Run!NextPhase
    <2>1. /\ drive' = [drive EXCEPT !.state = "failing", !.safe = Run!CanFallback(drive)]
          /\ proc' = [proc EXCEPT !.stop = TRUE] /\ UNCHANGED <<run, history>>
        BY <1>2 DEF Run!HandleResponse, Run!Fail
    <2> QED
        BY <1>0, <2>1, FallbackFacts, FailOK
<1>3. CASE drive.phase \in DOMAIN Run!NextPhase
    <2> DEFINE d == [drive EXCEPT !.phase = Run!NextPhase[drive.phase]]
    <2>1. /\ Run!NextPhase["initialize"] = "thread" /\ Run!NextPhase["thread"] = "turn"
          /\ Run!NextPhase["turn"] = "running"
        BY DEF Run!NextPhase
    <2>2. /\ d \in Run!DriveRecord /\ d.phase = Run!NextPhase[drive.phase] /\ d.transport = "server"
          /\ d.fallback = drive.fallback /\ d.state = "driving" /\ d.safe = drive.safe
        BY <1>0, <1>1, <1>3, <2>1 DEF Run!DriveRecord
    <2>3. \/ /\ drive.phase # "turn" /\ Run!Fail(d, Run!CanFallback(d)) /\ UNCHANGED <<run, history>>
          \/ /\ drive' = d /\ run' = Run!Announce(run) /\ UNCHANGED proc
             /\ history' = [history EXCEPT !.submitted =
                               IF drive.phase = "thread" THEN history.submitted + 1
                                                         ELSE history.submitted]
        BY <1>3 DEF Run!HandleResponse
    <2> HIDE DEF d
    <2>4. CASE drive.phase # "turn" /\ Run!Fail(d, Run!CanFallback(d)) /\ UNCHANGED <<run, history>>
        <3>1. /\ drive' = [d EXCEPT !.state = "failing", !.safe = Run!CanFallback(d)]
              /\ proc' = [proc EXCEPT !.stop = TRUE]
            BY <2>4 DEF Run!Fail
        <3>2. Run!CanFallback(d) \in BOOLEAN /\ (Run!CanFallback(d) => history.submitted = 0)
            BY <1>0, <1>1, <1>3, <2>1, <2>2, <2>4 DEF Run!CanFallback, Run!SubmissionHeld
        <3> QED
            BY <1>0, <2>2, <2>4, <3>1, <3>2, FailOK
    <2>5. CASE /\ drive' = d /\ run' = Run!Announce(run) /\ UNCHANGED proc
               /\ history' = [history EXCEPT !.submitted =
                                 IF drive.phase = "thread" THEN history.submitted + 1
                                                           ELSE history.submitted]
        <3>1. /\ history' \in [submitted : Nat, unconfirmed : BOOLEAN, processes : {1, 2}]
              /\ history'.submitted = IF drive.phase = "thread" THEN history.submitted + 1
                                                               ELSE history.submitted
            BY <1>0, <2>5
        <3>2. Run!SubmissionHeld'
            BY <1>0, <1>1, <1>3, <2>1, <2>2, <2>5, <3>1 DEF Run!SubmissionHeld
        <3>3. /\ "output" \in Run!Events \ {"fallback"} /\ Run!NextEvent \notin Run!BadFrames
              /\ Run!NextEvent \notin Run!TurnEnds /\ Run!NextEvent # "exited" /\ Run!NextEvent # "frames_dropped"
            BY DEF Run!Events, Run!StructuredFrames, Run!BadFrames, Run!TurnEnds
        <3>4. drive'.phase # "initialize"
            BY <1>1, <1>3, <2>1, <2>2, <2>5
        <3>5. CASE drive.phase = "initialize"
            <4>1. run' = run
                BY <2>5, <3>5 DEF Run!Announce
            <4>2. (run'.loss /\ run'.queue = run.queue) \/ (~ run.loss /\ run'.queue = run.queue)
                BY <4>1
            <4>3. run'.limited \/ run'.dropped > 0 => run'.loss
                BY <1>0, <4>1 DEF Run!JobHeld, Run!Hopeful, Run!Unbroken
            <4> QED
                BY <1>0, <2>2, <2>5, <3>1, <3>2, <3>3, <3>4, <3>5, <4>1, <4>2, <4>3, DrivingOn
        <3>6. CASE drive.phase # "initialize"
            <4>1. run' = Run!TrySend(run, "output")
                BY <2>5, <3>6 DEF Run!Announce
            <4>2. /\ run' \in Run!JobRecord /\ run'.result = run.result
                  /\ run'.limited \/ run'.dropped > 0 => run'.loss
                  /\ run'.cancel => run.cancel \/ run'.loss
                  /\ \/ run'.loss /\ run'.queue = run.queue
                     \/ ~ run.loss /\ run'.queue = Append(run.queue, "output")
                BY <1>0, <3>3, <4>1, TrySendFacts DEF Run!JobHeld, Run!Hopeful, Run!Unbroken
            <4> QED
                BY <1>0, <2>2, <2>5, <3>1, <3>2, <3>3, <3>4, <3>6, <4>2, DrivingOn
        <3> QED
            BY <3>5, <3>6
    <2> QED
        BY <2>3, <2>4, <2>5
<1> QED
    BY <1>2, <1>3

(* handle_notification and handle_server_request. *)
LEMMA HandleNoticeOK ==
    ASSUME Run!RunConstants, Run!IInv, drive.state = "driving", drive.transport = "server",
           Run!BusReady, bus' = Run!Taken, UNCHANGED <<exec, cancelled>>,
           Run!NextEvent \in {"item", "notice", "turn_completed", "turn_failed"},
           Run!HandleNotice(Run!NextEvent)
    PROVE  Run!IInv'
<1> DEFINE e == CASE Run!NextEvent = "turn_completed" -> "completed"
                  [] Run!NextEvent = "turn_failed" -> "error"
                  [] OTHER -> "output"
<1>0. /\ Run!TypeOK /\ Run!MonitorHeld /\ Run!SubmissionHeld /\ Run!JobHeld /\ Run!NoticeHeld /\ Run!OutcomeHeld
      /\ drive \in Run!DriveRecord /\ run \in Run!JobRecord /\ history' = history
      /\ history \in [submitted : Nat, unconfirmed : BOOLEAN, processes : {1, 2}]
      /\ bus' \in [events : Seq(Run!BusEvents), lagged : Nat] /\ bus.lagged \in Nat
      /\ run' = Run!TrySend(run, e)
    BY TakenFacts DEF Run!IInv, Run!TypeOK, Run!HandleNotice
<1>1. /\ e \in Run!Events \ {"fallback"}
      /\ Run!NextEvent \in Run!BadFrames => e \in {"error", "quota", "malformed"}
    BY DEF Run!Events, Run!StructuredFrames, Run!BadFrames
<1> HIDE DEF e
<1>2. /\ run' \in Run!JobRecord /\ run'.result = run.result
      /\ run'.limited \/ run'.dropped > 0 => run'.loss
      /\ run'.cancel => run.cancel \/ run'.loss
      /\ \/ run'.loss /\ run'.queue = run.queue
         \/ ~ run.loss /\ ~ run'.loss /\ run'.queue = Append(run.queue, e)
    BY <1>0, <1>1, TrySendFacts DEF Run!JobHeld, Run!Hopeful, Run!Unbroken
<1>3. CASE Run!NextEvent \in {"item", "notice"}
    <2>1. drive' = [drive EXCEPT !.sideEffect = @ \/ Run!NextEvent = "item"] /\ UNCHANGED proc
        BY <1>3 DEF Run!HandleNotice
    <2>2. /\ drive' \in Run!DriveRecord /\ drive'.state = "driving" /\ drive'.phase = drive.phase
          /\ drive'.transport = drive.transport /\ drive'.fallback = drive.fallback
          /\ drive'.safe = drive.safe
        BY <1>0, <2>1 DEF Run!DriveRecord
    <2>3. Run!SubmissionHeld'
        BY <1>0, <2>2 DEF Run!SubmissionHeld
    <2>4. Run!NextEvent \notin Run!TurnEnds /\ Run!NextEvent \notin {"exited", "frames_dropped", "response"}
        BY <1>3 DEF Run!TurnEnds
    <2> QED
        BY <1>0, <1>1, <1>2, <2>1, <2>2, <2>3, <2>4, DrivingOn
<1>4. CASE Run!NextEvent \in {"turn_completed", "turn_failed"}
    <2>1. /\ drive' = [drive EXCEPT !.state = "completing", !.phase = "completed"]
          /\ proc' = [proc EXCEPT !.stop = TRUE]
        BY <1>4 DEF Run!HandleNotice
    <2>2. /\ drive' \in Run!DriveRecord /\ drive'.state = "completing" /\ drive'.phase = "completed"
          /\ drive'.transport = "server" /\ drive'.fallback = drive.fallback
          /\ drive'.safe = drive.safe
        BY <1>0, <2>1 DEF Run!DriveRecord
    <2>3. /\ proc' \in Run!ProcRecord /\ proc'.monitor = proc.monitor /\ proc'.due = proc.due
          /\ proc'.bad = proc.bad /\ proc'.over = proc.over
          /\ proc'.truncated = proc.truncated /\ Run!MonitorHeld'
        BY <1>0, <2>1, StopFields
    <2>4. Run!TypeOK'
        BY <1>0, <1>2, <2>2, <2>3 DEF Run!TypeOK
    <2>5. Run!Hopeful' => Run!Hopeful /\ ~ run'.loss
        BY <1>2, <2>3 DEF Run!Hopeful, Run!Unbroken
    <2>6. Run!SubmissionHeld'
        BY <1>0, <2>2 DEF Run!SubmissionHeld
    <2>7. Run!JobHeld'
        <3>1. run'.cancel => ~ Run!Unbroken'
            BY <1>0, <1>2, <2>3, <2>5 DEF Run!JobHeld, Run!Hopeful, Run!Unbroken
        <3>2. exec.state = "waiting" => ~ Run!Hopeful
            BY <1>0 DEF Run!JobHeld, Run!Hopeful, Run!Unbroken
        <3> QED
            BY <1>0, <1>2, <2>2, <2>5, <3>1, <3>2 DEF Run!JobHeld, Run!Hopeful, Run!Unbroken
    <2>8. Run!Notices' = Run!Notices
        <3>1. CASE run'.queue = run.queue
            BY <3>1 DEF Run!Notices
        <3>2. CASE run'.queue = Append(run.queue, e)
            BY <1>0, <1>1, <3>2, QueueAppended
        <3> QED
            BY <1>2, <3>1, <3>2
    <2>9. Run!NoticeHeld' /\ Run!OutcomeHeld'
        BY <1>0, <2>2, <2>8 DEF Run!NoticeHeld, Run!OutcomeHeld, Run!SucceededIsComplete
    <2>10. bus.lagged = 0 /\ Run!Unread \in Nat /\ Run!Unread > 0 /\ Run!NextEvent = bus.events[1]
        <3>1. bus.lagged = 0
            BY <1>0, <1>4, TakenFacts
        <3> QED
            BY <1>4, <3>1, NextFacts
    <2>11. ASSUME Run!Hopeful' PROVE proc.over /\ Run!AllHeard'
        <3>1. PICK n \in 0 .. Run!Unread : Run!Accounted(n)
            BY <2>5, <2>10, <2>11 DEF Run!IInv, Run!FlowHeld, Run!Flowing
        <3>2. n > 0
            BY <2>10, <3>1 DEF Run!Accounted
        <3>3. 1 \in 1 .. n /\ bus.events[1] \in Run!TurnEnds
            BY <1>4, <2>10, <3>2 DEF Run!TurnEnds
        <3>4. proc.over /\ n = 1
            BY <3>1, <3>3 DEF Run!Accounted
        <3>5. Run!Greeting(n) = 0
            <4>1. \A i \in 1 .. n : bus.events[i] # "response"
                BY <2>10, <3>4, <1>4
            <4> QED
                BY <4>1 DEF Run!Greeting
        <3>6. proc.due \in Nat
            BY <1>0, ProcFields
        <3>7. PICK h \in Int : h = proc.due + Run!Greeting(n) - n
            BY <3>4, <3>5, <3>6
        <3>8. Run!Heard(h) /\ h + 1 = proc.due + 0
            BY <3>1, <3>4, <3>5, <3>6, <3>7 DEF Run!Accounted
        <3>9. run'.queue = Append(run.queue, e)
            BY <1>2, <2>5, <2>11
        <3>10. /\ Run!Heard(h + 1)' /\ (Run!BadQueued => Run!BadQueued')
               /\ e \in {"error", "quota", "malformed"} => Run!BadQueued'
            BY <1>0, <1>1, <3>8, <3>9, QueueAppended
        <3>11. proc.bad => Run!BadQueued'
            <4>1. proc.bad => Run!BadQueued \/ Run!NextEvent \in Run!BadFrames
                BY <2>10, <3>1, <3>4 DEF Run!Accounted
            <4> QED
                BY <1>1, <3>10, <4>1
        <3> QED
            BY <2>2, <2>3, <3>4, <3>8, <3>10, <3>11 DEF Run!AllHeard
    <2>13. Run!EndHeld'
        BY <2>2, <2>3, <2>11 DEF Run!EndHeld
    <2> QED
        BY <2>2, <2>3, <2>4, <2>6, <2>7, <2>9, <2>13, Left
<1> QED
    BY <1>3, <1>4

(* The driver of an App Server session reads the next event. *)
LEMMA ServerEventOK ==
    ASSUME Run!RunConstants, Run!IInv, Run!ServerEvent
    PROVE  Run!IInv'
<1>0. /\ Run!TypeOK /\ Run!JobHeld /\ drive.state = "driving" /\ drive.transport = "server" /\ Run!BusReady
      /\ drive \in Run!DriveRecord /\ run \in Run!JobRecord
      /\ bus' = Run!Taken /\ UNCHANGED <<exec, cancelled>>
    BY DEF Run!IInv, Run!TypeOK, Run!ServerEvent
<1>1. bus' \in [events : Seq(Run!BusEvents), lagged : Nat] /\ Run!Lost \in Nat
    BY <1>0, TakenFacts
<1>2. CASE Run!NextEvent = "frames_dropped" /\ run' = Run!AddDropped(run, Run!Lost) /\ Run!Fail(drive, FALSE) /\ UNCHANGED history
    <2>1. /\ drive' = [drive EXCEPT !.state = "failing", !.safe = FALSE]
          /\ proc' = [proc EXCEPT !.stop = TRUE]
        BY <1>2 DEF Run!Fail
    <2>2. run' \in Run!JobRecord /\ run'.loss /\ run'.queue = run.queue /\ run'.result = run.result
        BY <1>0, <1>1, <1>2, AddDroppedFacts
    <2> QED
        BY <1>0, <1>1, <1>2, <2>1, <2>2, FailOK
<1>3. CASE /\ Run!NextEvent = "exited" /\ UNCHANGED <<proc, run, history>>
           /\ drive' = [drive EXCEPT !.state = "failing",
                                     !.safe = Run!CanFallback(drive) /\ proc.reason = "exited"]
    <2> DEFINE safe == Run!CanFallback(drive) /\ proc.reason = "exited"
    <2>1. safe \in BOOLEAN /\ (safe => history.submitted = 0)
        BY <1>0, FallbackFacts
    <2>2. drive' = [drive EXCEPT !.state = "failing", !.safe = safe]
        BY <1>3
    <2> HIDE DEF safe
    <2> QED
        BY <1>0, <1>1, <1>3, <2>1, <2>2, FailOK
<1>4. CASE Run!NextEvent = "bad" /\ Run!Fail(drive, Run!CanFallback(drive)) /\ UNCHANGED <<run, history>>
    <2>1. /\ drive' = [drive EXCEPT !.state = "failing", !.safe = Run!CanFallback(drive)]
          /\ proc' = [proc EXCEPT !.stop = TRUE]
        BY <1>4 DEF Run!Fail
    <2> QED
        BY <1>0, <1>1, <1>4, <2>1, FallbackFacts, FailOK
<1>5. CASE Run!NextEvent = "response" /\ Run!HandleResponse
    BY <1>0, <1>5, HandleResponseOK
<1>6. CASE /\ Run!NextEvent \in {"item", "notice", "turn_completed", "turn_failed"}
           /\ Run!HandleNotice(Run!NextEvent)
    BY <1>0, <1>6, HandleNoticeOK
<1> QED
    BY <1>2, <1>3, <1>4, <1>5, <1>6 DEF Run!ServerEvent

(* The driver ends with a result. *)
LEMMA DriveEndsOK ==
    ASSUME Run!IInv, drive.state \in {"finishing", "completing", "failing"}, UNCHANGED <<exec, cancelled>>,
           NEW j \in Run!JobRecord, j.limited \/ j.dropped > 0 => j.loss,
           j.cancel => run.cancel \/ j.loss, run.loss => j.loss,
           NEW r \in {"ok", "bad", "killed", "failed", "timed_out", "cancelled"},
           Run!DriveEnds(j, r),
           \A a, b \in {i \in DOMAIN j.queue : j.queue[i] = "fallback"} : a = b,
           ~ j.loss /\ Run!Hopeful =>
              \/ r = "failed"
              \/ \E i \in DOMAIN j.queue : j.queue[i] \in {"error", "quota", "malformed"}
              \/ j.queue = run.queue /\ Run!AllHeard
    PROVE  Run!IInv'
<1>0. /\ Run!TypeOK /\ Run!MonitorHeld /\ Run!SubmissionHeld /\ Run!JobHeld /\ Run!NoticeHeld /\ Run!OutcomeHeld /\ Run!EndHeld
      /\ drive \in Run!DriveRecord
      /\ run' = [j EXCEPT !.result = r, !.treeError = proc.treeError /\ r # "failed"]
      /\ drive' = [drive EXCEPT !.state = "done", !.stopping = FALSE]
      /\ bus' = Run!EmptyBus /\ UNCHANGED <<proc, history>>
    BY DEF Run!IInv, Run!TypeOK, Run!DriveEnds, Run!Result
<1>1. /\ drive' \in Run!DriveRecord /\ drive'.state = "done" /\ drive'.transport = drive.transport
      /\ drive'.phase = drive.phase
    BY <1>0 DEF Run!DriveRecord
<1>2. /\ run' \in Run!JobRecord /\ run'.result = r /\ run'.queue = j.queue /\ run'.loss = j.loss
      /\ run'.limited = j.limited /\ run'.dropped = j.dropped /\ run'.cancel = j.cancel
    <2> DEFINE x == proc.treeError /\ r # "failed"
    <2>1. x \in BOOLEAN /\ run' = [j EXCEPT !.result = r, !.treeError = x]
        BY <1>0
    <2> HIDE DEF x
    <2> QED
        BY <2>1 DEF Run!JobRecord
<1>3. Run!EmptyBus \in [events : Seq(Run!BusEvents), lagged : Nat]
    BY DEF Run!EmptyBus
<1>4. Run!TypeOK'
    BY <1>0, <1>1, <1>2, <1>3 DEF Run!TypeOK
<1>5. Run!MonitorHeld' /\ Run!SubmissionHeld'
    BY <1>0, <1>1 DEF Run!MonitorHeld, Run!PipesOpen, Run!SubmissionHeld
<1>6. Run!Hopeful' => Run!Hopeful /\ ~ j.loss
    BY <1>0, <1>2 DEF Run!Hopeful, Run!Unbroken
<1>7. Run!JobHeld'
    <2>1. run'.cancel => ~ Run!Unbroken'
        BY <1>0, <1>2, <1>6 DEF Run!JobHeld, Run!Hopeful, Run!Unbroken
    <2>2. exec.state = "waiting" => ~ Run!Unbroken'
        BY <1>0, <1>2 DEF Run!JobHeld, Run!Unbroken
    <2> QED
        BY <1>1, <1>2, <2>1, <2>2 DEF Run!JobHeld
<1>8. Run!NoticeHeld'
    BY <1>1, <1>2 DEF Run!NoticeHeld, Run!Notices
<1>9. Run!OutcomeHeld'
    BY <1>0 DEF Run!OutcomeHeld, Run!SucceededIsComplete
<1>10. j.queue = run.queue /\ Run!AllHeard => Run!AllHeard'
    BY <1>0, <1>1, <1>2 DEF Run!AllHeard, Run!Heard, Run!Notices, Run!BadQueued
<1>11. (\E i \in DOMAIN j.queue : j.queue[i] \in {"error", "quota", "malformed"}) => Run!BadQueued'
    BY <1>2 DEF Run!BadQueued
<1>12. Run!EndHeld'
    BY <1>0, <1>1, <1>2, <1>6, <1>10, <1>11 DEF Run!EndHeld
<1> QED
    BY <1>1, <1>4, <1>5, <1>7, <1>8, <1>9, <1>12, Left

(* The output of a process that ended. *)
LEMMA OutputFacts ==
    ASSUME Run!IInv, Run!MonitorEnded, NEW b \in BOOLEAN
    PROVE  /\ Run!OutputOf(b) \in {"ok", "bad", "killed", "failed", "timed_out", "cancelled"}
           /\ proc.monitor = "failed" => Run!OutputOf(b) = "failed"
BY ProcFields DEF Run!IInv, Run!MonitorEnded, Run!MonitorHeld, Run!OutputOf

(* A queue with an event at its end. *)
LEMMA QueueEnd ==
    ASSUME Run!TypeOK, NEW e \in Run!Events
    PROVE  /\ e \in {"error", "quota", "malformed"} =>
                 \E i \in DOMAIN Append(run.queue, e) :
                    Append(run.queue, e)[i] \in {"error", "quota", "malformed"}
           /\ {i \in DOMAIN Append(run.queue, e) : Append(run.queue, e)[i] = "fallback"} =
                 IF e = "fallback" THEN Run!Notices \cup {Len(run.queue) + 1} ELSE Run!Notices
<1>1. run.queue \in Seq(Run!Events)
    BY DEF Run!TypeOK, Run!JobRecord
<1> QED
    BY <1>1, AppendFacts DEF Run!Notices

(* The driver of a session that completed stops the process and ends. *)
LEMMA DriveFinishOK ==
    ASSUME Run!RunConstants, Run!IInv, Run!DriveFinish
    PROVE  Run!IInv'
<1>0. /\ Run!TypeOK /\ Run!JobHeld /\ Run!NoticeHeld /\ Run!EndHeld /\ run \in Run!JobRecord /\ Run!MonitorEnded
      /\ drive.state \in {"finishing", "completing"} /\ UNCHANGED <<exec, cancelled>>
      /\ "malformed" \in Run!Events /\ "fallback" \in Run!Events
    BY DEF Run!IInv, Run!TypeOK, Run!DriveFinish, Run!Events, Run!StructuredFrames
<1>1. CASE drive.state = "completing" /\ proc.monitor = "failed"
    <2> DEFINE j == Run!TrySend(run, "malformed")
    <2>1. Run!DriveEnds(j, "failed")
        BY <1>1 DEF Run!DriveFinish
    <2>2. /\ j \in Run!JobRecord /\ (j.limited \/ j.dropped > 0 => j.loss)
          /\ (j.cancel => run.cancel \/ j.loss) /\ (run.loss => j.loss)
          /\ j.queue = run.queue \/ j.queue = Append(run.queue, "malformed")
        BY <1>0, TrySendFacts DEF Run!JobHeld, Run!Hopeful, Run!Unbroken
    <2>4. {i \in DOMAIN j.queue : j.queue[i] = "fallback"} = Run!Notices
        <3>1. CASE j.queue = run.queue
            BY <3>1 DEF Run!Notices
        <3>2. CASE j.queue = Append(run.queue, "malformed")
            BY <1>0, <3>2, QueueEnd
        <3> QED
            BY <2>2, <3>1, <3>2
    <2>3. \A a, b \in {i \in DOMAIN j.queue : j.queue[i] = "fallback"} : a = b
        BY <1>0, <2>4 DEF Run!NoticeHeld
    <2> HIDE DEF j
    <2> QED
        BY <1>0, <2>1, <2>2, <2>3, DriveEndsOK
<1>2. CASE ~(drive.state = "completing" /\ proc.monitor = "failed")
    <2> DEFINE r == Run!OutputOf(drive.state = "completing")
    <2>1. Run!DriveEnds(run, r)
        BY <1>2 DEF Run!DriveFinish
    <2>2. /\ r \in {"ok", "bad", "killed", "failed", "timed_out", "cancelled"}
          /\ proc.monitor = "failed" => r = "failed"
        BY <1>0, OutputFacts
    <2>3. Run!Hopeful => r = "failed" \/ Run!AllHeard
        BY <1>0, <2>2 DEF Run!EndHeld
    <2>4. \A a, b \in {i \in DOMAIN run.queue : run.queue[i] = "fallback"} : a = b
        BY <1>0 DEF Run!NoticeHeld, Run!Notices
    <2>5. run.limited \/ run.dropped > 0 => run.loss
        BY <1>0 DEF Run!JobHeld, Run!Hopeful, Run!Unbroken
    <2> HIDE DEF r
    <2> QED
        BY <1>0, <2>1, <2>2, <2>3, <2>4, <2>5, DriveEndsOK
<1> QED
    BY <1>1, <1>2

(* The fallback is started, or the driver ends. *)
LEMMA DriveFailOK ==
    ASSUME Run!RunConstants, Run!IInv, Run!DriveFail
    PROVE  Run!IInv'
<1>0. /\ Run!TypeOK /\ Run!SubmissionHeld /\ Run!JobHeld /\ Run!NoticeHeld /\ Run!OutcomeHeld /\ run \in Run!JobRecord
      /\ Run!MonitorEnded /\ drive.state = "failing" /\ UNCHANGED <<exec, cancelled>>
      /\ exec \in Run!ExecRecord /\ cancelled \in BOOLEAN
      /\ history \in [submitted : Nat, unconfirmed : BOOLEAN, processes : {1, 2}]
      /\ "malformed" \in Run!Events /\ "fallback" \in Run!Events /\ run.queue \in Seq(Run!Events)
      /\ run.limited \/ run.dropped > 0 => run.loss
    BY DEF Run!IInv, Run!TypeOK, Run!DriveFail, Run!Events, Run!StructuredFrames, Run!JobRecord, Run!JobHeld
<1>1. /\ Run!OutputOf(FALSE) \in {"ok", "bad", "killed", "failed", "timed_out", "cancelled"}
      /\ "failed" \in {"ok", "bad", "killed", "failed", "timed_out", "cancelled"}
    BY <1>0, OutputFacts
<1>2. ASSUME NEW e \in {"malformed", "fallback"}, e = "fallback" => drive.fallback
      PROVE  /\ Run!TrySend(run, e) \in Run!JobRecord
             /\ Run!TrySend(run, e).limited \/ Run!TrySend(run, e).dropped > 0 => Run!TrySend(run, e).loss
             /\ Run!TrySend(run, e).cancel => run.cancel \/ Run!TrySend(run, e).loss
             /\ run.loss => Run!TrySend(run, e).loss
             /\ Run!TrySend(run, e).result = run.result
             /\ \A a, b \in {i \in DOMAIN Run!TrySend(run, e).queue :
                                 Run!TrySend(run, e).queue[i] = "fallback"} : a = b
             /\ ~ Run!TrySend(run, e).loss => Run!TrySend(run, e).queue = Append(run.queue, e)
    <2> DEFINE j == Run!TrySend(run, e)
    <2>1. /\ j \in Run!JobRecord /\ (j.limited \/ j.dropped > 0 => j.loss)
          /\ (j.cancel => run.cancel \/ j.loss) /\ (run.loss => j.loss)
          /\ j.result = run.result
          /\ \/ j.loss /\ j.queue = run.queue
             \/ ~ j.loss /\ j.queue = Append(run.queue, e)
        BY <1>0, TrySendFacts
    <2> HIDE DEF j
    <2>2. \A a, b \in {i \in DOMAIN j.queue : j.queue[i] = "fallback"} : a = b
        <3>1. CASE j.queue = run.queue
            BY <1>0, <3>1 DEF Run!NoticeHeld, Run!Notices
        <3>2. CASE j.queue = Append(run.queue, e) /\ e = "malformed"
            <4>1. {i \in DOMAIN j.queue : j.queue[i] = "fallback"} = Run!Notices
                BY <1>0, <3>2, QueueEnd
            <4> QED
                BY <1>0, <4>1 DEF Run!NoticeHeld
        <3>3. CASE j.queue = Append(run.queue, e) /\ e = "fallback"
            <4>1. Run!Notices = {}
                BY <1>0, <1>2, <3>3 DEF Run!NoticeHeld
            <4>2. {i \in DOMAIN j.queue : j.queue[i] = "fallback"} = {Len(run.queue) + 1}
                BY <1>0, <3>3, <4>1, QueueEnd
            <4> QED
                BY <4>2
        <3> QED
            BY <2>1, <3>1, <3>2, <3>3
    <2> QED
        BY <2>1, <2>2 DEF j
<1>3. CASE ~(drive.fallback /\ drive.safe)
    <2> DEFINE j == Run!TrySend(run, "malformed")
               r == Run!OutputOf(FALSE)
    <2>1. Run!DriveEnds(j, r)
        BY <1>3 DEF Run!DriveFail
    <2>2. ~ j.loss => \E i \in DOMAIN j.queue : j.queue[i] \in {"error", "quota", "malformed"}
        <3>1. ~ j.loss => j.queue = Append(run.queue, "malformed")
            BY <1>2
        <3> QED
            BY <1>0, <3>1, QueueEnd
    <2>3. /\ j \in Run!JobRecord /\ (j.limited \/ j.dropped > 0 => j.loss)
          /\ (j.cancel => run.cancel \/ j.loss) /\ (run.loss => j.loss)
          /\ \A a, b \in {i \in DOMAIN j.queue : j.queue[i] = "fallback"} : a = b
        BY <1>2
    <2> HIDE DEF j, r
    <2> QED
        BY <1>0, <1>1, <2>1, <2>2, <2>3, DriveEndsOK DEF r
<1>4. CASE drive.fallback /\ drive.safe
    <2> DEFINE j == Run!TrySend(run, "fallback")
    <2>1. /\ j \in Run!JobRecord /\ (j.limited \/ j.dropped > 0 => j.loss)
          /\ (j.cancel => run.cancel \/ j.loss) /\ (run.loss => j.loss)
          /\ j.result = run.result
          /\ \A a, b \in {i \in DOMAIN j.queue : j.queue[i] = "fallback"} : a = b
          /\ ~ j.loss => j.queue = Append(run.queue, "fallback")
        BY <1>2, <1>4
    <2>2. CASE (~ Run!Forwarded(run, "fallback") \/ run.cancel) /\ Run!DriveEnds(j, Run!OutputOf(FALSE))
        <3>1. j.loss \/ ~ Run!Hopeful
            BY <1>0, <2>2, ForwardedFacts DEF Run!JobHeld, Run!Hopeful
        <3> HIDE DEF j
        <3> QED
            BY <1>0, <1>1, <2>1, <2>2, <3>1, DriveEndsOK
    <2>3. CASE Run!DriveEnds(j, "failed")
        <3> HIDE DEF j
        <3> QED
            BY <1>0, <1>1, <2>1, <2>3, DriveEndsOK
    <2>4. CASE /\ ~ run.cancel /\ run' = j /\ drive' = Run!NewDrive("structured", FALSE)
               /\ proc' = Run!Started /\ bus' = Run!EmptyBus
               /\ history' = [submitted |-> history.submitted + 1,
                              unconfirmed |-> proc.treeError \/ proc.monitor = "failed",
                              processes |-> 2]
        <3> HIDE DEF j
        <3>1. /\ drive' \in Run!DriveRecord /\ drive'.state = "driving" /\ drive'.phase = "none"
              /\ drive'.transport = "structured" /\ drive'.fallback = FALSE /\ drive'.safe = FALSE
            BY <2>4 DEF Run!NewDrive, Run!DriveRecord, Run!Transports
        <3>2. /\ proc' \in Run!ProcRecord /\ proc'.monitor = "watching" /\ proc'.due = 0
              /\ proc'.bad = FALSE /\ proc'.over = FALSE
            BY <2>4 DEF Run!Started, Run!ProcRecord
        <3>3. /\ bus' \in [events : Seq(Run!BusEvents), lagged : Nat] /\ bus'.events = << >>
            BY <2>4 DEF Run!EmptyBus
        <3>4. /\ history' \in [submitted : Nat, unconfirmed : BOOLEAN, processes : {1, 2}]
              /\ history'.submitted = 1
            <4>1. history.submitted = 0 /\ proc.treeError \in BOOLEAN
                BY <1>0, <1>4 DEF Run!SubmissionHeld, Run!TypeOK, Run!ProcRecord
            <4> QED
                BY <2>4, <4>1
        <3>5. Run!TypeOK'
            BY <1>0, <2>1, <2>4, <3>1, <3>2, <3>3, <3>4 DEF Run!TypeOK
        <3>6. Run!MonitorHeld' /\ Run!SubmissionHeld'
            BY <3>1, <3>2, <3>4 DEF Run!MonitorHeld, Run!SubmissionHeld
        <3>7. Run!Unread' = 0
            BY <3>2, <3>3 DEF Run!Unread
        <3>8. Run!BusHeld'
            BY <3>2, <3>7 DEF Run!BusHeld
        <3>9. Run!JobHeld'
            <4>1. Run!Unbroken' => Run!Unbroken
                BY <1>0, <2>1, <2>4 DEF Run!Unbroken
            <4>2. exec.state = "waiting" => ~ Run!Unbroken
                BY <1>0 DEF Run!JobHeld
            <4>3. run'.cancel => ~ Run!Unbroken'
                BY <2>1, <2>4 DEF Run!Unbroken
            <4>4. run.result = "none"
                BY <1>0 DEF Run!JobHeld
            <4> QED
                BY <1>0, <2>1, <2>4, <3>1, <4>1, <4>2, <4>3, <4>4 DEF Run!JobHeld
        <3>10. Run!NoticeHeld'
            <4>1. Run!Notices' = {i \in DOMAIN j.queue : j.queue[i] = "fallback"}
                BY <2>4 DEF Run!Notices
            <4>2. \A a, b \in Run!Notices' : a = b
                BY <2>1, <4>1
            <4>3. ~ drive'.fallback
                BY <3>1
            <4> QED
                BY <4>2, <4>3 DEF Run!NoticeHeld
        <3>11. Run!OutcomeHeld'
            BY <1>0 DEF Run!OutcomeHeld, Run!SucceededIsComplete
        <3>12. Run!EndHeld' /\ Run!GreetingHeld'
            BY <3>1, <3>2 DEF Run!EndHeld, Run!GreetingHeld
        <3>13. Run!FlowHeld'
            <4> SUFFICES ASSUME Run!Flowing' PROVE \E n \in 0 .. Run!Unread' : Run!Accounted(n)'
                BY DEF Run!FlowHeld
            <4>1. run'.queue = Append(run.queue, "fallback")
                BY <2>1, <2>4 DEF Run!Flowing, Run!Hopeful, Run!Unbroken
            <4>2. /\ Len(run'.queue) = Len(run.queue) + 1 /\ Len(run.queue) \in Nat
                  /\ Len(run.queue) + 1 \in Run!Notices'
                <5>1. /\ Len(run'.queue) = Len(run.queue) + 1 /\ Len(run.queue) \in Nat
                      /\ DOMAIN run'.queue = 1 .. Len(run.queue) + 1
                      /\ run'.queue[Len(run.queue) + 1] = "fallback"
                    BY <1>0, <4>1, AppendFacts
                <5> QED
                    BY <5>1 DEF Run!Notices
            <4>3. PICK h \in Int : h = 0
                OBVIOUS
            <4>4. Run!Heard(h)'
                BY <4>2, <4>3 DEF Run!Heard
            <4>5. Run!Greeting(0)' = 0
                BY <3>1 DEF Run!Greeting
            <4>6. Run!Heard(proc.due + Run!Greeting(0) - 0)'
                <5>1. h = proc'.due + Run!Greeting(0)' - 0
                    BY <3>2, <4>3, <4>5
                <5> QED
                    BY <4>4, <5>1
            <4>7. Run!Accounted(0)'
                BY <3>2, <3>7, <4>6 DEF Run!Accounted
            <4>8. 0 \in 0 .. Run!Unread'
                BY <3>7
            <4> QED
                BY <4>7, <4>8
        <3> QED
            BY <3>5, <3>6, <3>8, <3>9, <3>10, <3>11, <3>12, <3>13 DEF Run!IInv
    <2> QED
        BY <1>4, <2>2, <2>3, <2>4 DEF Run!DriveFail
<1> QED
    BY <1>3, <1>4

-----------------------------------------------------------------------------
(* The first states. *)
LEMMA RunInitOK ==
    ASSUME Run!RunConstants, Run!Init
    PROVE  Run!IInv
<1>1. /\ proc \in Run!ProcRecord /\ proc.monitor = "watching" /\ proc.due = 0 /\ ~ proc.bad
      /\ ~ proc.over /\ ~ proc.greeted
    BY DEF Run!Init, Run!Started, Run!ProcRecord
<1>2. bus \in [events : Seq(Run!BusEvents), lagged : Nat] /\ bus.events = << >>
    BY DEF Run!Init, Run!EmptyBus
<1>3. /\ exec \in Run!ExecRecord /\ exec.state = "loop" /\ exec.seen = 0 /\ exec.outcome = "none"
      /\ cancelled = FALSE
    BY DEF Run!Init, Run!ExecRecord
<1>4. /\ drive \in Run!DriveRecord /\ drive.state = "driving" /\ ~ drive.safe
      /\ drive.transport # "server" => drive.phase = "none"
      /\ drive.transport = "server" => drive.phase = "initialize"
    <2>1. PICK t \in Run!Transports, fallback \in BOOLEAN : drive = Run!NewDrive(t, fallback)
        BY DEF Run!Init, Run!Transports
    <2> QED
        BY <2>1 DEF Run!NewDrive, Run!DriveRecord, Run!Transports
<1>5. /\ run \in Run!JobRecord /\ ~ run.limited /\ run.dropped = 0 /\ ~ run.cancel /\ run.result = "none"
      /\ \/ run.queue = << >>
         \/ run.queue = << "fallback" >> /\ ~ drive.fallback
    <2>1. << >> \in Seq(Run!Events) /\ << "fallback" >> \in Seq(Run!Events)
        BY DEF Run!Events
    <2>2. \E q \in Seq(Run!Events), n \in Nat :
              /\ run = [queue |-> q, dropped |-> 0, loss |-> FALSE, forwarded |-> n,
                        limited |-> FALSE, cancel |-> FALSE, result |-> "none",
                        treeError |-> FALSE]
              /\ q = << >> \/ (q = << "fallback" >> /\ drive = Run!NewDrive("structured", FALSE))
        <3>1. 0 \in Nat /\ 1 \in Nat
            OBVIOUS
        <3>2. CASE run = [queue |-> << >>, dropped |-> 0, loss |-> FALSE, forwarded |-> 0,
                          limited |-> FALSE, cancel |-> FALSE, result |-> "none",
                          treeError |-> FALSE]
            BY <2>1, <3>1, <3>2
        <3>3. CASE /\ run = [queue |-> << "fallback" >>, dropped |-> 0, loss |-> FALSE,
                             forwarded |-> 1, limited |-> FALSE, cancel |-> FALSE,
                             result |-> "none", treeError |-> FALSE]
                   /\ drive = Run!NewDrive("structured", FALSE)
            BY <2>1, <3>1, <3>3
        <3> QED
            BY <3>2, <3>3 DEF Run!Init
    <2>3. PICK q \in Seq(Run!Events), n \in Nat :
              /\ run = [queue |-> q, dropped |-> 0, loss |-> FALSE, forwarded |-> n,
                        limited |-> FALSE, cancel |-> FALSE, result |-> "none",
                        treeError |-> FALSE]
              /\ q = << >> \/ (q = << "fallback" >> /\ drive = Run!NewDrive("structured", FALSE))
        BY <2>2
    <2>4. drive = Run!NewDrive("structured", FALSE) => ~ drive.fallback
        BY DEF Run!NewDrive
    <2>5. run.queue = q
        BY <2>3
    <2>6. /\ run \in Run!JobRecord /\ ~ run.limited /\ run.dropped = 0 /\ ~ run.cancel
          /\ run.result = "none"
        BY <2>3 DEF Run!JobRecord
    <2> QED
        BY <2>3, <2>4, <2>5, <2>6
<1>6. /\ history \in [submitted : Nat, unconfirmed : BOOLEAN, processes : {1, 2}]
      /\ history.submitted = IF drive.transport = "server" THEN 0 ELSE 1
    <2>1. \E t \in Run!Transports, fallback \in BOOLEAN :
              /\ drive = Run!NewDrive(t, fallback)
              /\ history = [submitted |-> IF t = "server" THEN 0 ELSE 1,
                            unconfirmed |-> FALSE, processes |-> 1]
        <3>1. CASE \E t \in Run!Transports, fallback \in BOOLEAN :
                       /\ drive = Run!NewDrive(t, fallback)
                       /\ history = [submitted |-> IF t = "server" THEN 0 ELSE 1,
                                     unconfirmed |-> FALSE, processes |-> 1]
            BY <3>1
        <3>2. CASE /\ drive = Run!NewDrive("structured", FALSE)
                   /\ history = [submitted |-> 1, unconfirmed |-> FALSE, processes |-> 1]
            BY <3>2 DEF Run!Transports
        <3> QED
            BY <3>1, <3>2 DEF Run!Init
    <2>2. PICK t \in Run!Transports, fallback \in BOOLEAN :
              /\ drive = Run!NewDrive(t, fallback)
              /\ history = [submitted |-> IF t = "server" THEN 0 ELSE 1,
                            unconfirmed |-> FALSE, processes |-> 1]
        BY <2>1
    <2>3. drive.transport = t
        BY <2>2 DEF Run!NewDrive
    <2> QED
        BY <2>2, <2>3
<1>7. Run!TypeOK
    BY <1>1, <1>2, <1>3, <1>4, <1>5, <1>6 DEF Run!TypeOK
<1>8. Run!MonitorHeld /\ Run!SubmissionHeld
    BY <1>1, <1>4, <1>6 DEF Run!MonitorHeld, Run!SubmissionHeld
<1>9. Run!Unread = 0
    BY <1>1, <1>2 DEF Run!Unread
<1>10. Run!BusHeld
    BY <1>1, <1>9 DEF Run!BusHeld
<1>11. Run!JobHeld
    BY <1>3, <1>4, <1>5 DEF Run!JobHeld
<1>12. Run!NoticeHeld
    BY <1>5 DEF Run!NoticeHeld, Run!Notices
<1>13. Run!GreetingHeld
    BY <1>1, <1>4, <1>9 DEF Run!GreetingHeld
<1>14. Run!Heard(0)
    <2>1. CASE run.queue = << >>
        <3>1. Run!Notices = {} /\ Len(run.queue) = 0
            BY <2>1 DEF Run!Notices
        <3> QED
            BY <1>3, <3>1 DEF Run!Heard
    <2>2. CASE run.queue = << "fallback" >>
        <3>1. 1 \in Run!Notices /\ Len(run.queue) = 1
            BY <2>2 DEF Run!Notices
        <3> QED
            BY <3>1 DEF Run!Heard
    <2> QED
        BY <1>5, <2>1, <2>2
<1>15. Run!Accounted(0)
    <2>1. Run!Greeting(0) = 0
        BY DEF Run!Greeting
    <2>2. proc.due + Run!Greeting(0) - 0 = 0
        BY <1>1, <2>1
    <2>3. Run!Heard(proc.due + Run!Greeting(0) - 0)
        BY <1>14, <2>2
    <2> QED
        BY <1>1, <1>9, <2>3 DEF Run!Accounted
<1>16. Run!FlowHeld
    BY <1>9, <1>15 DEF Run!FlowHeld
<1>17. Run!EndHeld /\ Run!OutcomeHeld
    BY <1>1, <1>3, <1>4 DEF Run!EndHeld, Run!OutcomeHeld, Run!SucceededIsComplete
<1> QED
    BY <1>7, <1>8, <1>10, <1>11, <1>12, <1>13, <1>16, <1>17 DEF Run!IInv

(* Every step keeps the invariant. *)
LEMMA RunStepOK ==
    ASSUME Run!RunConstants, Run!IInv, [Run!Next]_(Run!vars)
    PROVE  Run!IInv'
<1>1. CASE Run!Provider
    BY <1>1, EmitOK, ProviderEndsOK DEF Run!Provider
<1>2. CASE Run!Supervisor
    BY <1>2, MonitorOK, MonitorJoinOK DEF Run!Supervisor
<1>3. CASE Run!Driver
    BY <1>3, StaticCancelOK, StaticEventOK, StaticClosedOK, ServerFailsOK, ServerEventOK,
       DriveFinishOK, DriveFailOK DEF Run!Driver
<1>4. CASE Run!Executor
    BY <1>4, CancelledOK, ExecEventOK, ExecWaitOK, ExecReportOK DEF Run!Executor
<1>5. CASE Run!Cancel
    BY <1>5, CancelledOK
<1>6. CASE UNCHANGED Run!vars
    <2>1. /\ Run!TypeOK' /\ Run!MonitorHeld' /\ Run!JobHeld' /\ Run!NoticeHeld' /\ Run!OutcomeHeld'
        BY <1>6 DEF Run!vars, Run!IInv, Run!TypeOK, Run!MonitorHeld, Run!PipesOpen, Run!JobHeld, Run!Unbroken, Run!NoticeHeld,
                    Run!Notices, Run!OutcomeHeld, Run!SucceededIsComplete
    <2>2. Run!Hopeful' <=> Run!Hopeful
        BY <1>6 DEF Run!vars, Run!Hopeful, Run!Unbroken
    <2> QED
        BY <1>6, <2>1, <2>2, SameQueue, Kept DEF Run!vars
<1> QED
    BY <1>1, <1>2, <1>3, <1>4, <1>5, <1>6 DEF Run!Next, Run!Done

(* For every capacity of the two channels, limit of forwarded events and  *)
(* number of frames, IInv of WorkerRun holds in every state of a run of a  *)
(* provider: the records are well formed, every frame the process wrote is *)
(* still in the broadcast channel, queued for the executor or seen by it   *)
(* unless a loss has been recorded, and the work is not handed over before *)
(* the App Server has answered thread/start.                               *)
THEOREM RunInvariant == ASSUME Run!RunConstants PROVE Run!Spec => []Run!IInv
<1>1. Run!Init => Run!IInv
    BY RunInitOK
<1>2. Run!IInv /\ [Run!Next]_(Run!vars) => Run!IInv'
    BY RunStepOK
<1> QED
    BY <1>1, <1>2, PTL DEF Run!Spec

(* OfficialCliTaskExecutor::execute reports a success only when every      *)
(* frame of the process it ended with reached it, whatever the broadcast   *)
(* channel overwrote, the bounded channel refused, the limit cut off and   *)
(* however the exit, a cancellation and the deadline were interleaved.     *)
THEOREM SuccessIsComplete == ASSUME Run!RunConstants PROVE Run!Spec => []Run!SucceededIsComplete
<1>1. Run!IInv => Run!SucceededIsComplete
    BY DEF Run!IInv, Run!OutcomeHeld
<1> QED
    BY <1>1, RunInvariant, PTL

(* The work is handed to at most one process: start_worker and the driver  *)
(* start the fallback transport only when the App Server session failed    *)
(* before turn/start, so no provider runs the same turn twice.             *)
THEOREM SubmittedOnce == ASSUME Run!RunConstants PROVE Run!Spec => []Run!WorkSubmittedOnce
<1>1. Run!IInv => Run!WorkSubmittedOnce
    BY DEF Run!IInv, Run!SubmissionHeld, Run!WorkSubmittedOnce
<1> QED
    BY <1>1, RunInvariant, PTL
=============================================================================
