----------------------------- MODULE MCPipeline -----------------------------
EXTENDS Pipeline

CONSTANTS o1, o2, p1

\* All obligations pass, made out to this claim and to another; one is not
\* answered; one fails; one has a verdict that the protocol does not know;
\* nothing is answered.
SomeAnswers ==
  LET Output(h, S) == [header |-> h, results |-> S]
  IN  { Output("right", Obligations \X {"pass"}), Output("wrong", Obligations \X {"pass"}),
        Output("right", {<<o1, "pass">>}), Output("right", {<<o1, "pass">>, <<o2, "fail">>}),
        Output("right", {<<o1, "pass">>, <<o2, "other">>}), Output("right", {}) }

=============================================================================
