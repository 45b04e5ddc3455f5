----------------------------- MODULE RecordMenus -----------------------------
(* Small thresholds, and one menu of hook calls for each family of         *)
(* detectors, so that every detector can fire within a short run.          *)
EXTENDS Integers, FiniteSets

Quiet == [tools |-> {}, args |-> {{}}, results |-> {}, models |-> {}, streamed |-> {},
          tokens |-> {1}, replies |-> {}, finds |-> {}, memory |-> {}, limits |-> FALSE,
          offered |-> {TRUE}, inputs |-> {{}}, exits |-> {"completed", "final_answer"}, paces |-> {0},
          length |-> 7]

Said(text)       == [finish |-> "stop", out |-> Cardinality(text), text |-> text, degraded |-> FALSE]
Cut(finish, out) == [finish |-> finish, out |-> out, text |-> {}, degraded |-> FALSE]
Unreadable       == [finish |-> "none", out |-> 0, text |-> {}, degraded |-> TRUE]
Result(ok, text) == [ok |-> ok, text |-> text]

AllMenus ==
    { \* failing and repeating tools
      [Quiet EXCEPT !.tools = {"a", "b"}, !.results = {Result("ok", {"long"}), Result("failed", {})},
                    !.exits = {"completed", "error"}, !.length = 7],
      \* streamed and truncated responses
      [Quiet EXCEPT !.models = {"big", "small"}, !.streamed = {"big"}, !.tools = {"a"},
                    !.replies = {Said({}), Cut("length", 1), Cut("length", 0),
                                 Cut("max_tokens", 1), Unreadable}, !.length = 6],
      \* errors, and what is said of them
      [Quiet EXCEPT !.tools = {"a", "b"}, !.models = {"big"},
                    !.results = {Result("failed", {}), Result("ok", {"long"}),
                                 Result("ok", {"exception"})},
                    !.replies = {Said({"long", "done"}), Said({"sorry"}), Said({})},
                    !.exits = {"completed"}, !.length = 7],
      \* identifiers and injected content
      [Quiet EXCEPT !.tools = {"a", "drop"}, !.args = {{}, {"id"}},
                    !.results = {Result("ok", {"inject"}), Result("ok", {"id"})},
                    !.finds = {[text |-> {"inject"}, hits |-> 1, low |-> FALSE],
                               [text |-> {}, hits |-> 0, low |-> FALSE]},
                    !.inputs = {{}, {"drop", "id"}}, !.exits = {"completed"}, !.length = 6],
      \* memory
      [Quiet EXCEPT !.tools = {"a"}, !.exits = {"completed", "policy_violation"},
                    !.memory = [op : {"written"}, key : {"k", "l"}, source : {"user", "tool_output"},
                                text : {{}, {"inject"}}]
                        \union [op : {"read", "cleared"}, key : {"k"}, source : {"user"}, text : {{}}],
                    !.length = 5],
      \* long and costly runs, that take their time
      [Quiet EXCEPT !.tools = {"a"}, !.results = {Result("ok", {})}, !.models = {"big"},
                    !.tokens = {1, 3}, !.replies = {Said({"final"}), Said({"long"})},
                    !.limits = TRUE, !.paces = {0, 2}, !.length = 5] }

Thresholds == [loopWindow |-> 4, loopThreshold |-> 3, thrashWindow |-> 4, scanLimit |-> 4,
        minTotalCalls |-> 3, minDistinctTools |-> 2, repeatTenths |-> 15, avoidanceCalls |-> 2,
        stallSteps |-> 2, stormThreshold |-> 2, cascadeThreshold |-> 2, firstSteps |-> 1,
        handoffTools |-> {"b"}, truncationThreshold |-> 2, growthFactor |-> 2, bloatCalls |-> 2,
        minFirstTokens |-> 1, minLastTokens |-> 2, spinCalls |-> 3, minRatio |-> 2,
        ratioThreshold |-> 3, minSpike |-> 3, staticSpike |-> 4, degradedCalls |-> 2,
        minSlow |-> 1, slowTool |-> 3, slowLlm |-> 4, slowStep |-> 5, minSession |-> 2,
        staticSession |-> 6, stepCeiling |-> 2, costCeiling |-> 4, lookback |-> 1,
        destructiveTools |-> {"drop"}, minResults |-> 1, maxRetrievals |-> 2]

Missing == -1
Unlearned == [growth |-> -1, ratio |-> -1, tokens |-> -1, steps |-> 1, toolMs |-> -1,
                llmMs |-> 1, seconds |-> -1]
Tiers == [m \in {"big", "small", "unknown"} |->
              IF m = "big" THEN 2 ELSE IF m = "small" THEN 1 ELSE -1]
=============================================================================
