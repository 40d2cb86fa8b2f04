----------------------------- MODULE FilterChain -----------------------------
(***************************************************************************)
(* The report filters (VicrabCrashReportFilterBasic.m) as an installation  *)
(* chains them (VicrabCrashInstallation.m): a filter is given the reports  *)
(* and a completion block, and answers by calling the block, at once or    *)
(* much later on another queue.  A pipeline hands the answer of a filter   *)
(* to the next one; a combination gives every filter the same reports and  *)
(* zips the answers under keys.                                            *)
(*                                                                         *)
(* The completion blocks of nested chains form a stack: `stack` holds what *)
(* each block has captured, `call` the filter or the block that runs next. *)
(* The pre-filters are the one chain that can change while it runs:        *)
(* addFilter mutates the array that running blocks index.                  *)
(*                                                                         *)
(* A report is its number and the filters it went through.                 *)
(***************************************************************************)
EXTENDS Naturals, Sequences

CONSTANTS
    Trees,    \* chains an installation may run
    Inputs,   \* lists of reports to run them on
    Late,     \* filters the application may add as pre-filters
    MaxPre,   \* bound on the pre-filters
    Bad       \* <<kind, number>>: reports a kind of filter cannot convert

VARIABLES
    tree,     \* the chain
    input,    \* the reports given to it
    pre,      \* filters of prependedFilters
    stack,    \* what the blocks of the running chains have captured
    call,     \* the next call: to a filter ("enter"), or of a block ("answer")
    answers,  \* history: the calls of the caller's block
    changed   \* history: whether a pre-filter was added while the chain ran

chainVars == <<tree, input, pre, stack, call, answers, changed>>

Report(n) == [number |-> n, by |-> << >>, parts |-> << >>]
Mark(r, f) == [r EXCEPT !.by = Append(@, f)]

Answer(reports, completed) == [reports |-> reports, nil |-> FALSE, completed |-> completed]
NoReports(completed) == [reports |-> << >>, nil |-> TRUE, completed |-> completed]

Enters(node, reports) == [pc |-> "enter", node |-> node, reports |-> reports]
AnswersWith(answer) == [pc |-> "answer", answer |-> answer]
Stops(why) == [pc |-> why]

-----------------------------------------------------------------------------
(* Filters that call the block themselves *)

Cannot(f, reports) == {k \in DOMAIN reports : <<f.kind, reports[k].number>> \in Bad}
First(S) == CHOOSE k \in S : \A j \in S : k <= j

\* A filter that stops at the first report it cannot convert answers with the
\* reports before it: a key that is not found, a subset without one of its paths,
\* a string that has no UTF-8 form.
StopsAt(f, reports) ==
    LET bad == Cannot(f, reports)
        done == IF bad = {} THEN Len(reports) ELSE First(bad) - 1
    IN  AnswersWith(Answer([k \in 1..done |-> Mark(reports[k], f.name)], bad = {}))

\* allowNotFound puts an empty dictionary in its place.
Blanks(f, reports) ==
    AnswersWith(Answer([k \in DOMAIN reports |->
                      IF k \in Cannot(f, reports) THEN Report(0)
                      ELSE Mark(reports[k], f.name)], TRUE))

\* Data that is no UTF-8 makes addObject: throw, and nobody catches.
ConvertsOrThrows(f, reports) == IF Cannot(f, reports) # {} THEN Stops("thrown") ELSE StopsAt(f, reports)

\* A missing object reads "(null)" in a concatenation.
Concatenates(f, reports) ==
    AnswersWith(Answer([k \in DOMAIN reports |-> Mark(reports[k], f.name)], TRUE))

PassesThrough(reports) == AnswersWith(Answer(reports, TRUE))

\* A filter of the application answers what and when it likes.
Application(f, reports) ==
    CASE f.answer = "all"  -> Concatenates(f, reports)
      [] f.answer = "fail" -> AnswersWith(Answer(<< >>, FALSE))
      [] f.answer = "nil"  -> AnswersWith(NoReports(TRUE))

Leaf(f, reports) ==
    CASE f.kind = "pass"                        -> PassesThrough(reports)
      [] f.kind \in {"key", "subset", "toData"} -> StopsAt(f, reports)
      [] f.kind = "keyOrEmpty"                  -> Blanks(f, reports)
      [] f.kind = "concatenate"                 -> Concatenates(f, reports)
      [] f.kind = "toString"                    -> ConvertsOrThrows(f, reports)
      [] f.kind = "application"                 -> Application(f, reports)

-----------------------------------------------------------------------------
(* Chains *)

FiltersOf(node) == IF node.op = "pre" THEN pre ELSE node.filters

Frame(node, reports) ==
    [node |-> node, count |-> Len(FiltersOf(node)), i |-> 1, given |-> reports, sets |-> << >>]

\* The combined reports: as many as the first filter answered; a shorter answer of
\* another filter leaves its key out.
Combined(keys, sets) ==
    [n \in DOMAIN sets[1] |->
       [number |-> sets[1][n].number, by |-> << >>,
        parts |-> [k \in {keys[j] : j \in {j \in DOMAIN sets : n <= Len(sets[j])}} |->
                     LET j == CHOOSE j \in DOMAIN sets : keys[j] = k IN sets[j][n].by]]]

\* filterReports:onCompletion: of whatever is called next.
Filters ==
    /\ call.pc = "enter"
    /\ LET node == call.node
           filters == FiltersOf(node)
       IN  \/ /\ node.op = "leaf"
              /\ call' = Leaf(node, call.reports)
              /\ UNCHANGED stack
           \/ /\ node.op # "leaf" /\ filters = << >>
              /\ call' = PassesThrough(call.reports)
              /\ UNCHANGED stack
           \/ /\ node.op = "combine" /\ filters # << >> /\ Len(filters) # Len(node.keys)
              /\ call' = AnswersWith(Answer(call.reports, FALSE))
              /\ UNCHANGED stack
           \/ /\ node.op # "leaf" /\ filters # << >>
              /\ node.op = "combine" => Len(filters) = Len(node.keys)
              /\ stack' = Append(stack, Frame(node, call.reports))
              /\ call' = Enters(filters[1], call.reports)
    /\ UNCHANGED <<tree, input, pre, answers, changed>>

Top == stack[Len(stack)]
Below == SubSeq(stack, 1, Len(stack) - 1)

\* The next filter of the innermost chain: of the array as it is by now, at the
\* index the block counts.
NextFilter(frame) == FiltersOf(frame.node)[frame.i + 1]
NextInputGiven(frame, answer) == frame.given
NextInput(frame, answer) == IF frame.node.op = "combine" THEN frame.given ELSE answer.reports

\* What the completion block of a chain does with the answer of its filter.
Completed(frame, answer) ==
    LET sets == Append(frame.sets, answer.reports)
    IN  IF ~answer.completed THEN AnswersWith(answer)
        ELSE IF answer.nil THEN AnswersWith(NoReports(FALSE))
        ELSE IF frame.i < frame.count
        THEN Enters(NextFilter(frame), NextInput(frame, answer))
        ELSE AnswersWith(Answer(IF frame.node.op = "combine" THEN Combined(frame.node.keys, sets)
                            ELSE answer.reports, TRUE))

Completes ==
    /\ call.pc = "answer" /\ stack # << >>
    /\ call' = Completed(Top, call.answer)
    /\ stack' = IF call'.pc = "answer" THEN Below
                ELSE Append(Below, [Top EXCEPT !.i = @ + 1,
                                               !.sets = Append(@, call.answer.reports)])
    /\ UNCHANGED <<tree, input, pre, answers, changed>>

\* vicrabcrash_callCompletion of the caller's block.
CallCompletion ==
    /\ call.pc = "answer" /\ stack = << >>
    /\ answers' = Append(answers, call.answer)
    /\ call' = Stops("answered")
    /\ UNCHANGED <<tree, input, pre, stack, changed>>

Running == call.pc \in {"enter", "answer"}

\* addPreFilter: insertObject:atIndex:0, so the last one added runs first.
Inserts(f) == <<f>> \o pre
AddPreFilter(f) ==
    /\ Running /\ Len(pre) < MaxPre
    /\ \A k \in DOMAIN pre : pre[k] # f
    /\ pre' = Inserts(f)
    /\ changed' = (changed \/ call # Enters(tree, input))
    /\ UNCHANGED <<tree, input, stack, call, answers>>

ChainInit ==
    /\ tree \in Trees
    /\ input \in Inputs
    /\ pre = << >>
    /\ stack = << >>
    /\ call = Enters(tree, input)
    /\ answers = << >>
    /\ changed = FALSE

Runs == Filters \/ Completes \/ CallCompletion
ChainNext == Runs \/ \E f \in Late : AddPreFilter(f)

\* A filter that is called answers: the application's filters are assumed to.
ChainFairness == WF_chainVars(Runs)

-----------------------------------------------------------------------------
(* Properties *)

\* The caller's block was called, or a filter threw, which nobody catches.
Heard == answers # << >> \/ call.pc = "thrown"
=============================================================================
