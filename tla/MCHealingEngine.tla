-------------------------- MODULE MCHealingEngine ---------------------------
(* Cases of up to three steps, chosen so that the signals compete.         *)
EXTENDS HealingEngine

Hint(tag, id, testid, classes, text) ==
    [tag |-> tag, id |-> id, testid |-> testid, classes |-> classes,
     attrs |-> {}, text |-> text]
Act(tag, hint, text) == [target |-> TRUE, tag |-> tag, hint |-> hint, text |-> text]

SomeSteps == {
    \* navigate
    [Act("div", Hint(None, None, None, {}, None), None) EXCEPT !.target = FALSE],
    \* stable: a test-id, a class, and a test-id inside another
    Act("button", Hint(None, None, "submit", {"primary"}, None), None),
    Act("span", Hint(None, None, None, {"primary"}, None), "Welcome"),
    Act("input", Hint(None, None, "submit-all", {}, None), "value"),
    \* an #id with a test-id, with classes, with a tag
    Act("button", Hint("button", "old", "submit", {"primary"}, None), "Welcome"),
    Act("button", Hint("button", "old", "submit-all", {"primary", "big"}, None), None),
    Act("button", Hint(None, "old", None, {"primary", "big"}, None), None),
    Act("input", Hint(None, "old", "submit-all", {}, None), "value"),
    Act("button", Hint("button", "old", None, {}, None), None),
    \* a text, with another text expected
    Act("span", Hint(None, None, None, {}, "Hello"), "Welcome"),
    \* structure only
    Act("div", Hint("div", None, None, {}, None), None),
    Act("button", Hint("ul", None, None, {}, None), None)
}

TidNames == <<"tid-0", "tid-1", "tid-2">>
Substrings == {<<"submit", "submit-all">>}
Ratios == [p \in {"Hello", "Welcome", "value"} \X {"Hello", "Welcome", "value"} |->
              IF p = <<"Hello", "Welcome">> THEN 55 ELSE 20]

NoLLM == {}
SomeAnswers == {<<None, 0>>, <<"tid-0", 550>>, <<"submit", 20>>, <<"submit", 950>>,
                <<"elsewhere", 950>>}
=============================================================================
