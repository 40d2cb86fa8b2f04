---------------------------- MODULE MCFilterChain ----------------------------
EXTENDS FilterChain

F(name, kind) == [op |-> "leaf", name |-> name, kind |-> kind, answer |-> "all"]
App(answer) == [F("app", "application") EXCEPT !.answer = answer]
Pipe(filters) == [op |-> "pipe", filters |-> filters]
Combine(filters, keys) == [op |-> "combine", filters |-> filters, keys |-> keys]
Pre == [op |-> "pre"]

MCLate == {F("first", "pass"), F("second", "subset"), F("third", "concatenate")}
MCInputs == {<< >>, <<Report(1)>>, <<Report(1), Report(2)>>}
MCBad == {"key", "keyOrEmpty", "subset", "toData", "toString"} \X {2}

Sinks == {App(a) : a \in {"all", "fail", "nil"}}
Kinds == {"pass", "key", "keyOrEmpty", "concatenate", "subset", "toString", "toData"}
MCTrees ==
    {Pipe(<<Pre, sink>>) : sink \in Sinks}
    \cup {Pipe(<<Pre, F("own", k), sink>>) : k \in Kinds, sink \in Sinks}
    \cup {Pipe(<<Pre, Combine(<<F("left", k), Pipe(<<F("mid", j), F("right", "concatenate")>>)>>,
                              keys), sink>>)
          : k \in Kinds, j \in {"key", "pass"}, keys \in {<<"a">>, <<"a", "b">>},
            sink \in {App("all")}}
    \cup {Pipe(<<Combine(<< >>, << >>), Pipe(<< >>), App("all")>>)}

\* What a chain is for: a function of the reports, told without blocks or stacks.
RECURSIVE Applied(_, _, _)
Applied(node, filters, reports) ==
    IF node.op = "leaf" THEN Leaf(node, reports)
    ELSE IF filters = << >> THEN PassesThrough(reports)
    ELSE IF node.op = "combine"
    THEN IF Len(filters) # Len(node.keys) THEN AnswersWith(Answer(reports, FALSE))
         ELSE LET each == [k \in DOMAIN filters |->
                             Applied(filters[k], IF filters[k].op = "leaf" THEN << >>
                                                 ELSE FiltersOf(filters[k]), reports)]
                  ends == {k \in DOMAIN each : each[k].pc = "thrown" \/ ~each[k].answer.completed
                                               \/ each[k].answer.nil}
              IN  IF ends = {}
                  THEN AnswersWith(Answer(Combined(node.keys,
                                        [k \in DOMAIN each |-> each[k].answer.reports]), TRUE))
                  ELSE LET e == each[First(ends)]
                       IN  IF e.pc = "answer" /\ e.answer.completed
                           THEN AnswersWith(NoReports(FALSE)) ELSE e
    ELSE LET f == filters[1]
             e == Applied(f, IF f.op = "leaf" THEN << >> ELSE FiltersOf(f), reports)
         IN  IF e.pc = "thrown" \/ ~e.answer.completed THEN e
             ELSE IF e.answer.nil THEN AnswersWith(NoReports(FALSE))
             ELSE Applied(node, Tail(filters), e.answer.reports)

\* A chain computes what its filters, one inside the other, compute, unless a
\* pre-filter is added while it runs.
Composes ==
    ~changed /\ call.pc \in {"answered", "thrown"}
        => LET result == Applied(tree, FiltersOf(tree), input)
           IN  IF call.pc = "thrown" THEN result.pc = "thrown"
               ELSE answers = <<result.answer>>

\* Whoever sends reports hears of it, once, and hears what the chain is for.
SenderHears == Running ~> (Heard /\ Composes)
=============================================================================
