---------------------------- MODULE CrossRunMenus ----------------------------
(* A menu of runs for each of the detectors.                               *)
EXTENDS Naturals

Quiet == [agents |-> {"a"}, parents |-> {"none"}, inputs |-> {{}}, events |-> {}, runs |-> 2,
          length |-> 4]

Called(args)     == [type |-> "tool.called", name |-> "send", args |-> args]
Responded(text)  == [type |-> "tool.responded", text |-> text]
Replied(text)    == [type |-> "llm.responded", text |-> text]
Wrote(k, source) == [type |-> "memory.written", key |-> k, text |-> {"x"}, source |-> source]
Read(k)          == [type |-> "memory.read", key |-> k, text |-> {}, source |-> "none"]

AllMenus ==
    { \* handoffs
      [Quiet EXCEPT !.parents = {"latest"}, !.inputs = {{}, {"x"}},
                    !.events = {Called(<<>>), Responded({"x", "w"}), Replied({"x", "v"})},
                    !.length = 3],
      \* delegation
      [Quiet EXCEPT !.agents = {"a", "b"}, !.parents = {"latest"}, !.runs = 5, !.length = 1],
      \* planted destinations
      [Quiet EXCEPT !.events = {Wrote("k", "external"), Read("k"),
                                Called(<<"x">>), Called(<<"y", "x">>)}, !.length = 3],
      \* known destinations
      [Quiet EXCEPT !.inputs = {{"y"}, {"h"}}, !.events = {Called(<<"y">>), Called(<<"h">>)},
                    !.length = 2] }

Domains == [d \in {"x", "y", "h"} |-> IF d = "h" THEN "domain of h" ELSE d]
=============================================================================
