--------------------------- MODULE GroundingMenus ----------------------------
(* One menu for destinations, with gates and with tainted texts, and one   *)
(* for choices among records.                                              *)
EXTENDS Naturals, TLC

Quiet == [calls |-> {}, gated |-> {}, notes |-> {{}}, finds |-> {}, memory |-> {}, turns |-> {},
          inputs |-> {{}}, prompt |-> {}, parallel |-> FALSE, length |-> 6]

Answer(ok, text, sets) == [ok |-> ok, text |-> text, sets |-> sets]

Record(id, words) == [ids |-> {id}, words |-> words \union {id}, cut |-> FALSE]
Sarah == Record("c1", {"chen", "sarah"})
Emily == Record("c2", {"chen", "emily"})
Plain == [ids |-> {}, words |-> {"c1", "tag"}, cut |-> FALSE]
Deep  == [Emily EXCEPT !.cut = TRUE]

AllMenus ==
    { \* sends, some of them gated
      [Quiet EXCEPT !.gated = {"send"}, !.notes = {{}, {"x"}}, !.inputs = {{"y"}, {"y", "pattern"}},
                    !.calls = {"send"} \X {<<"x">>, <<"y", "x">>} \union {<<"look", <<>>>>}]
        @@ [results |-> [send |-> {Answer("ok", {"sent"}, <<>>)},
                         look |-> {Answer("ok", {"x"}, <<>>), Answer("failed", {}, <<>>)}]],
      \* tainted texts
      [Quiet EXCEPT !.calls = {<<"send", <<"x">>>>}, !.finds = {{"x"}, {"x", "inject"}},
                    !.memory = [op : {"written"}, key : {"k"}, source : {"user", "external"},
                                text : {{"x"}}]
                               \union [op : {"read"}, key : {"k"}, source : {"user"}, text : {{}}],
                    !.inputs = {{}, {"inject", "x"}}, !.prompt = {"z"}, !.length = 5]
        @@ [results |-> [send |-> {Answer("ok", {"x", "inject"}, <<>>), Answer("ok", {}, <<>>)}]],
      \* choices among records
      [Quiet EXCEPT !.calls = {<<"delete", <<"c1">>>>, <<"delete", <<"c2">>>>, <<"look", <<>>>>},
                    !.gated = {"delete"}, !.notes = {{}, {"sarah"}}, !.length = 6,
                    !.turns = {{"emily"}}, !.inputs = {{}, {"emily"}}]
        @@ [results |-> [delete |-> {Answer("ok", {"done"}, <<>>), Answer("failed", {}, <<>>)},
                         look |-> {Answer("ok", {"c1", "c2"}, << <<Sarah, Emily>> >>),
                                   Answer("ok", {"c1"}, << <<Sarah>> >>)}]],
      \* choices, in other answers and with calls side by side
      [Quiet EXCEPT !.calls = {<<"delete", <<"c1">>>>, <<"look", <<>>>>}, !.gated = {"delete"},
                    !.turns = {{"tag"}}, !.parallel = TRUE, !.length = 6]
        @@ [results |-> [delete |-> {Answer("failed", {}, <<>>)},
                         look |-> {Answer("ok", {"c1", "c2"}, << <<Sarah, Emily>> >>),
                                   Answer("ok", {"c1"}, << <<Plain, Emily>>, <<Sarah, Plain>> >>),
                                   Answer("ok", {"c2"}, << <<Sarah, Deep>> >>)}]] }
=============================================================================
