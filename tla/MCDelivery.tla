------------------------------ MODULE MCDelivery ------------------------------
(***************************************************************************)
(* Reports on their way out, for TLC: the delivery of stored reports, the  *)
(* filters an installation puts before the sink, and the fields of the     *)
(* installation.  They share no state: a behaviour is about one of them    *)
(* and leaves the others as they are at launch.                            *)
(***************************************************************************)
EXTENDS Delivery, MCFilterChain, ReportFields

AFrame(symbol, at) == [symbol |-> symbol, at |-> at, app |-> symbol = "main"]
Other == [NoThread EXCEPT !.frames = <<AFrame("wait", 3), AFrame("start", 4)>>]
Crashed == [NoThread EXCEPT !.crashed = TRUE, !.lr = 2,
                            !.frames = <<AFrame("f", 1), AFrame("f", 2), AFrame("main", 5)>>]
BadAccess == [ASection EXCEPT !.type = "mach", !.mach = "EXC_BAD_ACCESS", !.threads = <<Other, Crashed>>]
\* std::terminate without an exception, where the stack has overflowed.
Nameless == [BadAccess EXCEPT !.type = "cpp_exception", !.mach = "other",
                        !.threads[2].overflow = TRUE]
Shape(first, again) == [crash |-> first, recrash |-> again, cpu |-> "arm64"]
Minimal(section) == [section EXCEPT !.threads = << >>, !.crashedThread = <<Crashed>>]

MCShapes ==
    {Shape([BadAccess EXCEPT !.threads[2].strings = {"assertion failed"}], << >>),
     Shape(Minimal(BadAccess), <<[BadAccess EXCEPT !.type = "nsexception", !.threads = <<Other>>]>>),
     Shape(Minimal(BadAccess), <<[ASection EXCEPT !.reason = Snapshot, !.threads = << >>]>>),
     Shape(Nameless, << >>)}

NoChain ==
    /\ tree = Pipe(<< >>) /\ input = << >>
    /\ pre = << >> /\ stack = << >>
    /\ call = Stops("none") /\ answers = << >> /\ changed = FALSE

VARIABLE part  \* what a behaviour is about
vars == <<part, deliveryVars, chainVars, fieldVars>>

Init ==
    /\ part \in {"reports", "filters", "fields"}
    /\ DeliveryInit /\ FieldsInit
    /\ \/ part = "filters" /\ ChainInit
       \/ part # "filters" /\ NoChain

Next ==
    /\ UNCHANGED part
    /\ \/ part = "reports" /\ DeliveryNext /\ UNCHANGED <<chainVars, fieldVars>>
       \/ part = "filters" /\ ChainNext /\ UNCHANGED <<deliveryVars, fieldVars>>
       \/ part = "fields" /\ FieldsNext /\ UNCHANGED <<deliveryVars, chainVars>>

\* Only the chain's liveness is stated: its actions are the fair ones.
FairSpec == Init /\ [][Next]_vars /\ ChainFairness
=============================================================================
