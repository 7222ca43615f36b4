----------------------------- MODULE MCSagaData -----------------------------
(* An asynchronous and a synchronous step, with small responses and templates. *)
EXTENDS SagaData, SagaTemplate

Code == Num("0")

TxPayload == Obj([a |-> Str("p")])

MCResponses ==
    {Obj([code |-> Code, id |-> Str("x")]),
     Obj([code |-> Code, id |-> Braced("b"), l |-> Arr(<<Str("y"), Obj([id |-> Num("7")])>>)]),
     Obj([code |-> Num("9")])}

MCPollResponses == {Obj([code |-> Code, status |-> Str(s), id |-> Str("z")]) : s \in {"done", "busy", "bad"}}

PollMatch == [successPath |-> <<"$", ".", "status">>, successValue |-> "done",
              failurePath |-> <<"status">>, failureValue |-> "bad"]

MCVerdict(r) == MatchPollResult(r, PollMatch)

MCData(rows, i) == BuildTemplateData(TxPayload, rows, i)

(* {step[0].action_response.id} and the like *)
First(path) == Var(<<"step", "[0]", ".", "action_response", ".">> \o path)
Own(path)   == Var(<<"action_response", ".">> \o path)
Global      == Var(<<"transaction", ".", "payload", ".", "a">>)

MCActionTpls ==
    {[url |-> <<Lit("/do/"), Global>>, payload |-> NilMap],
     [url |-> <<Lit("/do")>>,
      payload |-> Obj([v |-> Tpl(<<First(<<"id">>)>>), w |-> Arr(<<Tpl(<<Lit("-"), Global>>), Code>>)])],
     [url |-> <<Lit("/do/"), First(<<"l", "[1]", ".", "id">>)>>, payload |-> NilMap]}

MCPollTpls == {[url |-> <<Lit("/poll/"), Own(<<"id">>)>>, payload |-> NilMap]}

MCCompensateTpls == {[url |-> <<Lit("/undo/"), Own(<<"id">>)>>, payload |-> NilMap],
                     [url |-> <<Lit("/undo")>>, payload |-> Obj([v |-> Tpl(<<Own(<<"l", "[0]">>)>>)])]}

Paths ==
    LET Heads == {<<>>, <<"action_response", ".">>, <<"step", "[0]", ".", "action_response", ".">>}
        Ends  == BoundedSeq({"id", "l", ".", "[0]", "[1]", "[-1]", "[x]"}, 3)
                   \cup {<<"l", "[">>, <<"l", "[", ".", "id">>, <<"l", "[1]", ".", "id">>,
                         <<"l", "[1]", "[0]", ".", "id">>, <<"step", "[1]", ".", "index">>}
    IN  {h \o e : h \in Heads, e \in Ends}

(* These templates are what LocalTemplates asks of a definition. *)
ASSUME LocalTemplates

(***************************************************************************)
(* In the data of every transaction that succeeded, resolveTemplatePath    *)
(* and ExtractByPath find what walking the path word by word finds.        *)
(***************************************************************************)
PathsAgree ==
    tx = "succeeded" =>
       \A path \in Paths : FoundByWalking(path, MCData(steps, 1))
=============================================================================
