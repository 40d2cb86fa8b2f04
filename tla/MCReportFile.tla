---------------------------- MODULE MCReportFile ----------------------------
(***************************************************************************)
(* A report on its way to the file and back, for TLC: the writer of        *)
(* reports, the codec and the buffers below it.  They share no state: a    *)
(* behaviour takes one of the four machines through its steps.             *)
(***************************************************************************)
EXTENDS ReportWriter, JSONStream, FileBuffers

VARIABLE part  \* the machine a behaviour is about
vars == <<part, reportVars, streamVars, writerVars, readerVars>>

\* The machines that do not step are in one state.
Init ==
    /\ part \in {"report", "stream", "writer", "reader"}
    /\ part # "report" => setup = [json |-> "none", restricts |-> FALSE, introspects |-> FALSE, left |-> "nothing"]
    /\ ReportInit /\ StreamInit /\ WriterInit /\ ReaderInit
    /\ part # "stream" => consumer = "file"
    /\ part # "reader" => log.size = 0

Next ==
    /\ UNCHANGED part
    /\ \/ part = "report" /\ ReportNext /\ UNCHANGED <<streamVars, writerVars, readerVars>>
       \/ part = "stream" /\ StreamNext /\ UNCHANGED <<reportVars, writerVars, readerVars>>
       \/ part = "writer" /\ WriterNext /\ UNCHANGED <<reportVars, streamVars, readerVars>>
       \/ part = "reader" /\ ReaderNext /\ UNCHANGED <<reportVars, streamVars, writerVars>>

Spec == Init /\ [][Next]_vars
=============================================================================
