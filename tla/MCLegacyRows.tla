---------------------------- MODULE MCLegacyRows ----------------------------
(***************************************************************************)
(* A repository-local store for LegacyImport: what it holds before and     *)
(* after an older program has written to it.  The program first starts and *)
(* stops its daemon, which changes only bytes, and then removes rows and   *)
(* adds a line to its log.                                                 *)
(***************************************************************************)
EXTENDS Naturals, Sequences, TLC

CONSTANT None

Row(kind, refs, doc, cites) ==
    LET r == [kind |-> kind, id |-> <<kind>>, refs |-> refs, doc |-> doc, seal |-> None,
              cites |-> cites, released |-> FALSE]
    IN  IF kind \in {"checkpoint", "handover", "graph", "batch"}
        THEN [r EXCEPT !.seal = <<kind, doc>>] ELSE r

Doc(kind, refs) == [id |-> <<kind>>, refs |-> refs, at |-> None]

Task == [task |-> <<"task">>]
Result == [checkpoint |-> <<"checkpoint">>, verification |-> <<"verification">>]
Graph ==
    Row("graph", [session |-> <<"session">>, requirement |-> <<"requirement">>],
        Doc("graph", [session |-> <<"session">>, requirement |-> <<"requirement">>]), None)
Batch ==
    Row("batch", [graph |-> <<"graph">>],
        Doc("batch", [graph |-> <<"graph">>] @@ Result), None)
Handover == Row("handover", Task, Doc("handover", Task), None)

After ==
    {Row("session", <<>>, None, None), Row("requirement", <<>>, None, None),
     Row("task", <<>>, Doc("task", <<>>), None), Graph,
     Row("approval", [graph |-> <<"graph">>], None, Graph.seal)}

Before ==
    After \cup
    {Row("attempt", Task, Doc("attempt", Task), None),
     Row("checkpoint", Task @@ [attempt |-> <<"attempt">>],
         Doc("checkpoint", Task @@ [attempt |-> <<"attempt">>]), None),
     [Handover EXCEPT !.cites = Handover.seal],
     Row("verification", Task, Doc("verification", Task), None),
     Batch,
     Row("source", [batch |-> <<"batch">>] @@ Result, Doc("source", Result), None),
     Row("application", [batch |-> <<"batch">>], None, Batch.seal),
     Row("command", <<>>, Doc("command", [graph |-> <<"graph">>]), Graph.seal),
     Row("claim", Task @@ [daemon |-> <<"daemon">>], None, None),
     Row("daemon", <<>>, None, None)}

SourceContents == [A |-> [rows |-> Before, events |-> 2], B |-> [rows |-> After, events |-> 2]]

SourceImages ==
    <<[logical |-> "A", live |-> TRUE, exported |-> 1],
      [logical |-> "A", live |-> FALSE, exported |-> 1],
      [logical |-> "A", live |-> FALSE, exported |-> 1],
      [logical |-> "B", live |-> FALSE, exported |-> 2]>>

SourceFiles == <<[lines |-> 1], [lines |-> 1], [lines |-> 2]>>
=============================================================================
