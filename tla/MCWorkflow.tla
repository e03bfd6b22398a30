----------------------------- MODULE MCWorkflow -----------------------------
(* Two workers, a process and its children. *)
EXTENDS Workflow

CONSTANTS root, foo, bar, w1, w2

step(op, child, def) == [op |-> op, child |-> child, def |-> def]
participant == step("participant", None, None)

(* A child that sleeps, waited for by name; a definition that replaces     *)
(* itself by one that waits for all of its children; and one that has      *)
(* passed a Join before that, so that the new one does not wait.           *)
MCDefs ==
    [named |-> <<step("spawn", foo, "sleeper"), step("join", foo, None)>>,
     replaced |-> <<participant, step("replace", None, "rest")>>,
     late |-> <<step("join", None, None), step("replace", None, "rest")>>,
     rest |-> <<step("spawn", foo, "short"), step("join", None, None)>>,
     sleeper |-> <<step("sleep", None, None), participant>>,
     short |-> <<participant>>]
MCRootDefs == {"named", "replaced", "late"}

(* The definition of TestJoin_multiStagesJoin. *)
StagesDefs ==
    [stages |-> <<step("spawn", foo, "short"), step("join", None, None), participant,
                  step("spawn", bar, "short"), step("join", None, None)>>,
     short |-> <<participant>>]
StagesRootDefs == {"stages"}
=============================================================================
