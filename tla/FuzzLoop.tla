------------------------------ MODULE FuzzLoop ------------------------------
(***************************************************************************)
(* main() of sqlsmith (src/sqlsmith.cc): start up, then generate, tell the *)
(* loggers, test, tell the loggers, recover the session; with the device   *)
(* under test (DutSession), the grammar feedback (Impedance), the stderr   *)
(* statistics and the logging database (src/log.cc).                       *)
(***************************************************************************)
EXTENDS Integers, Sequences, FiniteSets, Functions

CONSTANTS
    MaxFaults, ServerMayReject,                              \* DutSession
    Prods, Gated, MinFailed, RateNum, RateDen, MaxOccurs,    \* Impedance
    MaxQueries,  \* --max-queries
    StatEvery    \* the stat row is written once in so many queries (1000)

ASSUME SessionAssumption == MaxFaults \in Nat /\ ServerMayReject \in BOOLEAN
ASSUME FeedbackAssumption == IsFiniteSet(Prods) /\ MaxOccurs \in Nat
ASSUME BudgetAssumption == MaxQueries \in Nat
ASSUME StatAssumption == StatEvery \in Nat \ {0}

VARIABLES
    conn, step, setup, waiting, life, outcome, handed,       \* DutSession
    up, backend, params, dirty, durable, faults,
    failedIn, okIn, query, pending, finished,                \* Impedance
    options,    \* --help (or --version, or one that cannot be parsed),
                \*   --dry-run, --log-to, --verbose, a bad --max-queries
    main,       \* where main() is
    rest,       \* the loggers the current loop over them has yet to call
    queries_generated,
    cerr,       \* cerr_logger: its queries and their nodes, the dots printed,
                \*   the symbols of errors
    log,        \* pqxx_logger: its queries and their nodes, stat.generated
                \*   (-1: no row), what became of its errors
    logdb       \* its connection: "ok" or "broken"; nothing ever reopens it

Dut == INSTANCE DutSession
Imp == INSTANCE Impedance

dutVars == <<conn, step, setup, waiting, life, outcome, handed,
             up, backend, params, dirty, durable, faults>>
impVars == <<failedIn, okIn, query, pending, finished>>
mainVars == <<options, main, rest, queries_generated, cerr, log, logdb>>
vars == <<dutVars, impVars, mainVars>>

-----------------------------------------------------------------------------
Symbols == {"t", "S", "C", "e"}
Starting == {"options", "schema", "seed", "openlog"}
Exits == {"exit0", "exit1", "aborted", "interrupted"}

DryRun == options.dry_run
LogTo == options.log_to
Verbose == options.verbose

(* The order main() pushes them in. *)
Loggers ==
    <<"impedance">> \o (IF LogTo THEN <<"pqxx">> ELSE <<>>)
                    \o (IF Verbose THEN <<"cerr">> ELSE <<>>)

(* cerr_logger::error; dut::timeout and dut::syntax and dut::broken in turn. *)
SymbolOf(class) ==
    CASE class = "timeout" -> "t"
      [] class = "syntax" -> "S"
      [] class = "broken" -> "C"
      [] OTHER -> "e"

CerrErrors == cerr.err["t"] + cerr.err["S"] + cerr.err["C"] + cerr.err["e"]

(* An error that pqxx_logger is told of becomes a row of the table error;   *)
(* or its trigger discard_known drops it silently; or the INSERT fails.      *)
Fates == {"stored", "discarded", "failed"}

LogErrors == log.err["stored"] + log.err["discarded"] + log.err["failed"]

(* Mutant: the first of every StatEvery is forgotten. *)
StatDueOnce(n) == n = StatEvery - 1

(* pqxx_logger::generated *)
StatDue(n) == n % StatEvery = StatEvery - 1

Running == main \notin Exits

OptionSets ==
    [help : BOOLEAN, dry_run : BOOLEAN, log_to : BOOLEAN, verbose : BOOLEAN, bad_budget : BOOLEAN]

Init ==
    /\ Dut!Init
    /\ Imp!Init
    /\ options \in OptionSets
    /\ main = "options"
    /\ rest = <<>>
    /\ queries_generated = 0
    /\ cerr = [queries |-> 0, nodes |-> 0, dots |-> 0, err |-> [s \in Symbols |-> 0]]
    /\ log = [queries |-> 0, nodes |-> 0, stat |-> -1, err |-> [f \in Fates |-> 0]]
    /\ logdb = "ok"

GoTo(place) ==
    /\ main' = place
    /\ UNCHANGED <<options, rest, queries_generated, cerr, log, logdb, dutVars, impVars>>

ParseOptions ==
    /\ main = "options"
    /\ GoTo(IF options.help THEN "exit0" ELSE "schema")

(* schema_pqxx over a session of its own: an exception, or an assert, if    *)
(* there is no server or the catalog changes meanwhile (SchemaLoad).         *)
LoadSchema ==
    /\ main = "schema"
    /\ \/ up /\ GoTo("seed")
       \/ GoTo("exit1")
       \/ up /\ GoTo("aborted")

AfterLogger == IF DryRun THEN "gen" ELSE "connect"

(* --seed: stoi throws if it is no number. *)
Seed ==
    /\ main = "seed"
    /\ \/ GoTo(IF LogTo THEN "openlog" ELSE AfterLogger)
       \/ GoTo("exit1")

(* pqxx_logger's constructor: instance and stat rows in one transaction; an *)
(* exception if there is no such database or it refuses one of them.         *)
OpenLog ==
    /\ main = "openlog"
    /\ \/ /\ logdb = "ok"
          /\ log' = [log EXCEPT !.stat = 0]
          /\ main' = AfterLogger
       \/ /\ main' = "exit1"
          /\ UNCHANGED log
    /\ UNCHANGED <<options, rest, queries_generated, cerr, logdb, dutVars, impVars>>

(* make_shared<dut_libpq> has returned or thrown; a throw ends main(). *)
Connected ==
    /\ main = "connect"
    /\ life # "ctor"
    /\ GoTo(IF life = "live" THEN "gen" ELSE "exit1")

(* Mutant: the check comes before the count. *)
BudgetSpentLate == ~DryRun /\ queries_generated > MaxQueries

(* The main loop counts and checks before it generates ... *)
BudgetSpent == ~DryRun /\ queries_generated + 1 > MaxQueries

(* ... and stol throws if --max-queries is no number. *)
BudgetUnreadable == ~DryRun /\ options.bad_budget

Stop ==
    /\ main = "gen"
    /\ BudgetUnreadable \/ BudgetSpent
    /\ queries_generated' = queries_generated + 1
    /\ main' = IF BudgetUnreadable THEN "exit1" ELSE "exit0"
    /\ UNCHANGED <<options, rest, cerr, log, logdb, dutVars, impVars>>

(* statement_factory; the recursion of a failing one is left out. *)
Generate(ast) ==
    /\ main = "gen"
    /\ ~BudgetUnreadable /\ ~BudgetSpent
    /\ Imp!NewQuery(ast)
    /\ main' = "generated"
    /\ rest' = Loggers
    /\ queries_generated' = IF DryRun THEN queries_generated ELSE queries_generated + 1
    /\ UNCHANGED <<options, cerr, log, logdb, dutVars>>

(* stats_collecting_logger::generated, for one of the two. *)
Collected(l) == [l EXCEPT !.queries = @ + 1, !.nodes = @ + FoldFunction(+, 0, query)]

(* Mutant: a stat row that cannot be written is passed over. *)
StatRowOrOn(l) ==
    \/ logdb = "ok" /\ log' = [l EXCEPT !.stat = l.queries] /\ UNCHANGED main
    \/ log' = l /\ UNCHANGED main

(* The UPDATE of the stat row; lost or refused it is an exception. *)
StatRow(l) ==
    \/ logdb = "ok" /\ log' = [l EXCEPT !.stat = l.queries] /\ UNCHANGED main
    \/ log' = l /\ main' = "exit1"

(* for (auto l : loggers) l->generated(gen); nothing catches an exception *)
(* here but the outermost handler.                                         *)
TellGenerated ==
    /\ main = "generated" /\ rest # <<>>
    /\ rest' = Tail(rest)
    /\ \/ /\ Head(rest) = "impedance"
          /\ UNCHANGED <<main, cerr, log>>
       \/ /\ Head(rest) = "cerr"
          /\ cerr' = Collected(cerr)
          /\ UNCHANGED <<main, log>>
       \/ /\ Head(rest) = "pqxx"
          /\ LET l == Collected(log)
             IN  IF StatDue(l.queries) THEN StatRow(l) ELSE log' = l /\ UNCHANGED main
          /\ UNCHANGED cerr
    /\ UNCHANGED <<options, queries_generated, logdb, dutVars, impVars>>

(* dut->test(s.str()) *)
CallTest ==
    /\ main = "generated" /\ rest = <<>>
    /\ ~DryRun
    /\ Dut!Test
    /\ main' = "test"
    /\ UNCHANGED <<options, rest, queries_generated, cerr, log, logdb, impVars>>

(* Mutant: the dry run's check is off by one. *)
DryBudgetSpentLate(n) == n > MaxQueries

(* ... the dry run after, and there is no feedback to wait for. *)
DryBudgetSpent(n) == n >= MaxQueries

DryNext ==
    /\ main = "generated" /\ rest = <<>>
    /\ DryRun
    /\ queries_generated' = queries_generated + 1
    /\ main' = IF options.bad_budget THEN "exit1"
               ELSE IF DryBudgetSpent(queries_generated') THEN "exit0" ELSE "gen"
    /\ Imp!Unjudged
    /\ UNCHANGED <<options, rest, cerr, log, logdb, dutVars>>

(* Mutant: no outer loop recovers a broken session. *)
AfterTestFatal ==
    CASE outcome.class = "ok" -> "executed"
      [] outcome.class = "broken" -> "exit1"
      [] OTHER -> "error"

(* test() has returned, or thrown a dut::failure. *)
AfterTest == IF outcome.class = "ok" THEN "executed" ELSE "error"

TestReturned ==
    /\ main = "test"
    /\ Dut!Idle
    /\ main' = AfterTest
    /\ rest' = Loggers
    /\ UNCHANGED <<options, queries_generated, cerr, log, logdb, dutVars, impVars>>

TellExecuted ==
    /\ main = "executed" /\ rest # <<>>
    /\ rest' = Tail(rest)
    /\ IF Head(rest) = "impedance" THEN Imp!FeedExecuted ELSE UNCHANGED impVars
    /\ cerr' = IF Head(rest) = "cerr" THEN [cerr EXCEPT !.dots = @ + 1] ELSE cerr
    /\ UNCHANGED <<options, main, queries_generated, log, logdb, dutVars>>

(* Mutant: one try around the whole loop; a failed logger hides the later ones. *)
RestAfterErrorOneTry ==
    IF log'.err["failed"] > log.err["failed"] THEN <<>> ELSE Tail(rest)

(* Every logger has its own try: "log failed" is printed, the others go on. *)
RestAfterError == Tail(rest)

(* Mutant: a lost connection is not counted as an error. *)
ErrorCountedUnlessBroken ==
    IF outcome.class = "broken" THEN cerr
    ELSE [cerr EXCEPT !.err[SymbolOf(outcome.class)] = @ + 1]

(* cerr_logger::error *)
ErrorCounted == [cerr EXCEPT !.err[SymbolOf(outcome.class)] = @ + 1]

(* pqxx_logger::error *)
ErrorLogged(fate) ==
    /\ logdb = "broken" => fate = "failed"
    /\ log' = [log EXCEPT !.err[fate] = @ + 1]

TellError ==
    /\ main = "error" /\ rest # <<>>
    /\ IF Head(rest) = "impedance" THEN Imp!FeedError ELSE UNCHANGED impVars
    /\ IF Head(rest) = "pqxx" THEN \E fate \in Fates : ErrorLogged(fate) ELSE UNCHANGED log
    /\ rest' = RestAfterError
    /\ cerr' = IF Head(rest) = "cerr" THEN ErrorCounted ELSE cerr
    /\ UNCHANGED <<options, main, queries_generated, logdb, dutVars>>

(* Mutant: after a lost connection the same query is tried once more. *)
AfterRoundRetrying ==
    IF main = "error" /\ outcome.class = "broken" THEN "generated" ELSE "gen"

(* The next round, or the re-throw to the recovery loop. *)
AfterRound ==
    IF main = "error" /\ outcome.class = "broken" THEN "sleep" ELSE "gen"

Proceed ==
    /\ main \in {"executed", "error"} /\ rest = <<>>
    /\ GoTo(AfterRound)

(* Mutant: the recovery loop waits for a good connection. *)
WakeConnected ==
    /\ main = "sleep"
    /\ conn = "ok"
    /\ GoTo("gen")

(* this_thread::sleep_for is over, whether the server is back or not. *)
Wake ==
    /\ main = "sleep"
    /\ GoTo("gen")

(* SIGINT: cerr_log_handler, once main() has installed it, reports and      *)
(* exits, wherever main() is.                                                *)
Interrupt ==
    /\ Running /\ Verbose /\ main \notin Starting
    /\ GoTo("interrupted")

-----------------------------------------------------------------------------
(* The device works while main() is inside its constructor or test(). *)
DeviceStep ==
    /\ main \in {"connect", "test"}
    /\ Dut!Client
    /\ UNCHANGED <<mainVars, impVars>>

ServerStep ==
    /\ Running
    /\ Dut!Environment
    /\ UNCHANGED <<mainVars, impVars>>

(* The logging database goes away (external). *)
LogDbLost ==
    /\ Running /\ LogTo /\ logdb = "ok"
    /\ logdb' = "broken"
    /\ UNCHANGED <<options, main, rest, queries_generated, cerr, log, dutVars, impVars>>

Done == ~Running /\ UNCHANGED vars

MainStep ==
    \/ ParseOptions \/ LoadSchema \/ Seed
    \/ OpenLog \/ Connected \/ Stop \/ (\E ast \in Imp!ASTs : Generate(ast))
    \/ TellGenerated \/ CallTest \/ DryNext \/ TestReturned
    \/ TellExecuted \/ TellError \/ Proceed \/ Wake

Next == MainStep \/ DeviceStep \/ Interrupt \/ ServerStep \/ LogDbLost \/ Done

Spec == Init /\ [][Next]_vars

(* main() runs on; the device and the server as in DutSession. *)
DeviceReplies == main \in {"connect", "test"} /\ Dut!ReplyInTime /\ UNCHANGED <<mainVars, impVars>>
DeviceDials == main \in {"connect", "test"} /\ Dut!Dial /\ UNCHANGED <<mainVars, impVars>>
DeviceSends == main \in {"connect", "test"} /\ Dut!Send /\ UNCHANGED <<mainVars, impVars>>
DeviceLoses == main \in {"connect", "test"} /\ Dut!ConnectionLost /\ UNCHANGED <<mainVars, impVars>>

Fairness ==
    /\ WF_vars(MainStep)
    /\ WF_vars(DeviceReplies) /\ WF_vars(DeviceDials)
    /\ WF_vars(DeviceSends) /\ WF_vars(DeviceLoses)

FairSpec == Spec /\ Fairness

-----------------------------------------------------------------------------
TypeOK ==
    /\ Dut!TypeOK
    /\ Imp!TypeOK
    /\ options \in OptionSets
    /\ main \in Starting \cup {"connect", "gen", "generated", "test", "executed",
                 "error", "sleep"} \cup Exits
    /\ rest \in {SubSeq(Loggers, i, Len(Loggers)) : i \in 1..Len(Loggers) + 1}
    /\ queries_generated \in 0..MaxQueries + 1
    /\ cerr \in [queries : Nat, nodes : Nat, dots : Nat, err : [Symbols -> Nat]]
    /\ log \in [queries : Nat, nodes : Nat, stat : Nat \cup {-1}, err : [Fates -> Nat]]
    /\ logdb \in {"ok", "broken"}

(* The report may be printed at any moment (SIGINT): every query it counts  *)
(* has a result but at most the one in flight, and no result is counted     *)
(* without its query, so that the error rate it prints is at most 1.        *)
ReportConsistent ==
    Verbose /\ ~DryRun => cerr.queries - (cerr.dots + CerrErrors) \in {0, 1}

(* Between two rounds all loggers tell the same story: the feedback has     *)
(* judged as many queries as the symbols printed; and each symbol of an      *)
(* error is a row of the error table, was dropped by that table's trigger,   *)
(* or has been announced by a "log failed": none is lost in silence.         *)
LoggersAgree ==
    main = "gen" /\ Verbose /\ ~DryRun =>
        /\ finished = cerr.dots + CerrErrors
        /\ LogTo => /\ log.queries = cerr.queries /\ log.nodes = cerr.nodes
                    /\ LogErrors = CerrErrors

(* While main() runs the stat row lags behind by fewer than StatEvery        *)
(* queries, even if the logging database is lost or refuses the row          *)
(* (pqxx_logger::generated): then main() ends with the row that failed.       *)
StatFresh ==
    LogTo /\ main \notin Starting \cup Exits => log.queries - log.stat < StatEvery

(* --max-queries: a run that ends of itself has generated exactly that many *)
(* queries (a dry run at least one) and has a result for each.               *)
ExactBudget ==
    main = "exit0" /\ Verbose /\ ~options.help =>
        /\ cerr.queries = IF DryRun /\ MaxQueries = 0 THEN 1 ELSE MaxQueries
        /\ ~DryRun => cerr.dots + CerrErrors = MaxQueries

(* Whatever the server under test does once the first connection stood (or, *)
(* in a dry run, a query was generated), main() does not give up, unless     *)
(* --max-queries is no number, which it finds at the first query, or a stat   *)
(* row that was due has not been written.                                     *)
ServerNeverEndsRun ==
    main \in {"exit1", "aborted"} /\ (life = "live" \/ queries_generated > 0) =>
        \/ options.bad_budget /\ queries_generated = 1
        \/ LogTo /\ StatDue(log.queries) /\ log.stat < log.queries

(* The feedback gets at most one verdict per generated query, before the    *)
(* next one is generated: main() and its logger loops make the calls in the *)
(* order that Impedance assumes and impedance.cc does not check.             *)
FeedbackProtocol == Imp!Spec

(* With --max-queries the run ends, even if the server never comes back: a   *)
(* test that cannot reach it counts too.                                    *)
Terminates == <>(main \in Exits)
============================================================================
