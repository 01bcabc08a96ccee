--------------------------- MODULE FuzzLoopProofs ---------------------------
(***************************************************************************)
(* main() and its loggers, for every set of options, any budget, any       *)
(* number of faults and SIGINT or the loss of the logging database at any  *)
(* moment: what the loggers have counted, and that the device and the      *)
(* feedback are called as their modules expect.                            *)
(***************************************************************************)
EXTENDS FuzzLoop, SequenceLemmas, TLAPS

-----------------------------------------------------------------------------
(* The inductive invariant, in named parts. *)

(* The current loop over the loggers has yet to call l. *)
Awaits(l) == \E i \in 1..Len(rest) : rest[i] = l

(* The queries of which the loggers are told; a dry run counts a query when *)
(* it is through with it.                                                    *)
Round == IF DryRun /\ main = "generated" THEN queries_generated + 1 ELSE queries_generated

(* How many of them have been announced to l, and how many results. *)
Announced(l) == IF main = "generated" /\ Awaits(l) THEN Round - 1 ELSE Round
Judged(l) ==
    IF main \in {"generated", "test"} \/ (main \in {"executed", "error"} /\ Awaits(l))
    THEN queries_generated - 1 ELSE queries_generated

Nodes == FoldFunction(+, 0, query)

(* Every logger counts what it is told. *)
CountInv ==
    Running =>
        /\ ~DryRun => finished = Judged("impedance")
        /\ Verbose => cerr.queries = Announced("cerr")
        /\ Verbose /\ ~DryRun => cerr.dots + CerrErrors = Judged("cerr")
        /\ LogTo => log.queries = Announced("pqxx")

(* The loggers that precede cerr_logger have heard of the same nodes, and   *)
(* of the same errors, except for the one it has yet to hear of.             *)
NodesInv ==
    Running /\ Verbose /\ LogTo =>
        log.nodes = IF main = "generated" /\ Awaits("cerr") /\ ~Awaits("pqxx")
                    THEN cerr.nodes + Nodes ELSE cerr.nodes
ErrorsHeard ==
    IF main = "error" /\ Awaits("cerr") /\ ~Awaits("pqxx") THEN CerrErrors + 1 ELSE CerrErrors
ErrorsInv == Running /\ Verbose /\ LogTo => LogErrors = ErrorsHeard

(* The stat row is the last query but for at most so many. *)
StatInv ==
    LogTo /\ main \notin Starting \cup Exits =>
        /\ log.stat <= log.queries
        /\ log.queries - log.stat <= (log.queries + 1) % StatEvery

(* A query waits for its verdict from its generation until the feedback,    *)
(* the first of the loggers, is told of the result.                          *)
PendingInv ==
    /\ main \in {"generated", "test"} => pending
    /\ main \in {"executed", "error"} => (pending <=> Awaits("impedance"))
    /\ main \in Starting \cup {"connect", "gen", "sleep"} => ~pending

(* How far the budget goes while main() runs. *)
BudgetInv ==
    /\ main \in Starting \cup {"connect"} => queries_generated = 0
    /\ Running /\ ~DryRun => queries_generated <= MaxQueries
    /\ Running /\ ~DryRun /\ main \in {"generated", "test", "executed", "error"} => queries_generated > 0
    /\ Running /\ DryRun => queries_generated < MaxQueries \/ queries_generated = 0
    /\ main \in {"connect", "test", "executed", "error", "sleep"} => ~DryRun
    /\ Running /\ main # "options" => ~options.help
    /\ Running /\ options.bad_budget => queries_generated = 0

(* The device is idle whenever main() is not inside it. *)
DeviceInv ==
    /\ main \in Starting => life = "ctor"
    /\ main \in Starting \cup {"connect"} => step = "none"
    /\ main \in {"gen", "generated", "executed", "error", "sleep"} /\ ~DryRun => Dut!Idle
    /\ main = "test" => life = "live"

(* How it ended. *)
ExitInv == ~Running => ReportConsistent /\ ExactBudget /\ ServerNeverEndsRun

(* connect() runs inside the constructor or inside the first command of a   *)
(* test; past it a test has a connection; the statement is sent once.        *)
SessionInv ==
    /\ Dut!InSetup => conn # "null" /\ step \in {"none", "rollback"}
    /\ life = "ctor" => step = "none" /\ handed = 0
    /\ life = "ctor" /\ ~Dut!InSetup => conn = "null"
    /\ life = "live" /\ step = "none" => ~Dut!InSetup
    /\ life = "dead" => step = "none" /\ ~Dut!InSetup
    /\ step \in {"begin", "stmt", "cleanup"} => conn = "ok" /\ ~Dut!InSetup
    /\ waiting => Dut!InCommand /\ conn = "ok"
    /\ step \in {"rollback", "begin"} => handed = 0
    /\ step = "stmt" => handed = IF waiting THEN 1 ELSE 0

IInv ==
    /\ TypeOK /\ SessionInv
    /\ CountInv /\ NodesInv /\ ErrorsInv /\ StatInv
    /\ PendingInv /\ BudgetInv /\ DeviceInv /\ ExitInv

-----------------------------------------------------------------------------
(* The device: main() calls it as DutSession expects. *)

(* main() is inside the device, or leaves it alone, or calls test(). *)
LEMMA DeviceCalled == [Next]_vars => [Dut!Next]_(Dut!vars)
<1> SUFFICES ASSUME [Next]_vars PROVE [Dut!Next]_(Dut!vars)
    OBVIOUS
<1> USE DEF Dut!vars, Dut!client, Dut!server, dutVars
<1>1. CASE UNCHANGED dutVars
    BY <1>1
<1>2. CASE CallTest
    BY <1>2 DEF CallTest, Dut!Next
<1>3. CASE DeviceStep
    BY <1>3 DEF DeviceStep, Dut!Next
<1>4. CASE ServerStep
    BY <1>4 DEF ServerStep, Dut!Next
<1>5. CASE MainStep /\ ~CallTest
    BY <1>1, <1>5
    DEF MainStep, GoTo, ParseOptions, LoadSchema, Seed, OpenLog, Connected, Stop, Generate,
        TellGenerated, DryNext, TestReturned, TellExecuted, TellError, Proceed, Wake
<1> QED
    BY <1>1, <1>2, <1>3, <1>4, <1>5 DEF Next, Interrupt, GoTo, LogDbLost, Done, vars

(* The session keeps its types: lemmas by flags, values and actions. *)
FlagsOK == waiting \in BOOLEAN /\ up \in BOOLEAN /\ dirty \in BOOLEAN /\ durable \in BOOLEAN
ValuesOK ==
    /\ conn \in {"null", "ok", "bad"}
    /\ step \in Dut!Commands \cup {"none"}
    /\ setup \in Dut!Settings \cup {"none"}
    /\ life \in {"ctor", "live", "dead"}
    /\ outcome \in [class : Dut!Classes, sqlstate : Dut!SqlStates]
    /\ handed \in {0, 1}
    /\ backend \in {"gone", "idle", "block", "failed"}
    /\ params \in SUBSET Dut!Settings
    /\ faults \in 0..MaxFaults

LEMMA SessionParts == Dut!TypeOK <=> FlagsOK /\ ValuesOK
  BY DEF Dut!TypeOK, FlagsOK, ValuesOK

LEMMA FlagsStep == ASSUME FlagsOK, [Dut!Next]_(Dut!vars) PROVE FlagsOK'
<1> USE DEF FlagsOK, Dut!vars, Dut!client, Dut!server, Dut!Throw
<1>1. CASE Dut!Test BY <1>1, Zenon DEF Dut!Test
<1>2. CASE Dut!Dial BY <1>2, Zenon DEF Dut!Dial, Dut!DialOk, Dut!DialFail, Dut!DialSilent
<1>3. CASE Dut!Send BY <1>3, Zenon DEF Dut!Send
<1>4. CASE Dut!ReplyOk BY <1>4, Zenon DEF Dut!ReplyOk, Dut!Execute
<1>5. ASSUME NEW s \in Dut!ErrorStates, Dut!ReplyError(s) PROVE FlagsOK'
    BY <1>5, Zenon DEF Dut!ReplyError
<1>6. ASSUME NEW s \in Dut!LostStates, Dut!Lost(s) PROVE FlagsOK'
    BY <1>6, Zenon DEF Dut!Lost
<1>7. CASE Dut!Environment BY <1>7, Zenon DEF Dut!Environment, Dut!Crash, Dut!Restart, Dut!Kill
<1>8. CASE UNCHANGED Dut!vars BY <1>8, Zenon
<1> QED BY <1>1, <1>2, <1>3, <1>4, <1>5, <1>6, <1>7, <1>8
     DEF Dut!Next, Dut!Client, Dut!Reply, Dut!ConnectionLost, Dut!Done

LEMMA SessionStep ==
  ASSUME FlagsOK, ValuesOK, SessionInv, [Dut!Next]_(Dut!vars)
  PROVE  (ValuesOK /\ SessionInv)'
<1> USE SessionAssumption
<1> USE DEF FlagsOK, ValuesOK, SessionInv, Dut!vars, Dut!client, Dut!server, Dut!Throw, Dut!InTest,
      Dut!InSetup, Dut!Idle, Dut!Alive, Dut!AtConnect, Dut!InCommand, Dut!AtStatement,
      Dut!Commands, Dut!Settings, Dut!SqlStates, Dut!ErrorStates, Dut!LostStates, Dut!Classes, Dut!Exceptions,
      Dut!Ended, Dut!Fault, Dut!FirstSetting, Dut!FirstCommand, Dut!LossNoticed, Dut!ConnAfterLoss
<1>1. CASE Dut!Test
    BY <1>1, SMT DEF Dut!Test
<1>2. CASE Dut!DialOk
    BY <1>2, SMT DEF Dut!DialOk
<1>3. CASE Dut!DialFail
    BY <1>3, SMT DEF Dut!DialFail
<1>4. CASE Dut!DialSilent
    BY <1>4, SMT DEF Dut!DialSilent
<1>5. CASE Dut!Send
    BY <1>5, SMT DEF Dut!Send
<1>6. CASE Dut!ReplyOk
    <2>1. /\ waiting /\ Dut!Alive /\ Dut!InCommand /\ conn = "ok" /\ conn' = conn
          /\ handed' = handed /\ waiting' = FALSE /\ faults' = faults
        BY <1>6, SMT DEF Dut!ReplyOk
    <2>2. params' \in SUBSET Dut!Settings /\ backend' \in {"gone", "idle", "block", "failed"}
        <3>1. CASE Dut!InSetup
            <4>1. params' = params \cup {setup} /\ UNCHANGED backend
                BY <1>6, <3>1, Zenon DEF Dut!ReplyOk, Dut!Execute
            <4> QED BY <3>1, <4>1
        <3>2. CASE ~Dut!InSetup
            <4>1. UNCHANGED params
                BY <1>6, <3>2, Zenon DEF Dut!ReplyOk, Dut!Execute
            <4>2. backend' \in {backend, "idle", "block"}
                BY <1>6, <3>2, Zenon DEF Dut!ReplyOk, Dut!Execute
            <4> QED BY <4>1, <4>2
        <3> QED BY <3>1, <3>2
    <2>3. CASE Dut!InSetup
        <3>1. setup' \in {"messages", "appname", "none"} /\ (setup' = "none" <=> setup = "appname")
            BY <1>6, <2>3, SMT DEF Dut!ReplyOk, Dut!AfterSetting
        <3>2. /\ step' = step /\ outcome' = outcome
              /\ life' = IF setup = "appname" THEN "live" ELSE life
            BY <1>6, <2>3, SMT DEF Dut!ReplyOk
        <3> QED BY <2>1, <2>2, <2>3, <3>1, <3>2, SMT
    <2>4. CASE ~Dut!InSetup
        <3>1. setup' = setup /\ life' = life
            BY <1>6, <2>4, SMT DEF Dut!ReplyOk
        <3>2. outcome' \in [class : Dut!Classes, sqlstate : Dut!SqlStates]
            BY <1>6, <2>4, SMT DEF Dut!ReplyOk
        <3>3. \/ step = "rollback" /\ step' = "begin"
              \/ step = "begin" /\ step' = "stmt"
              \/ step = "stmt" /\ step' = "cleanup"
              \/ step = "cleanup" /\ step' = "none"
            BY <1>6, <2>1, <2>4, SMT DEF Dut!ReplyOk, Dut!AfterCommand
        <3> QED BY <2>1, <2>2, <2>4, <3>1, <3>2, <3>3, SMT
    <2> QED BY <2>3, <2>4
<1>7. ASSUME NEW s \in Dut!ErrorStates, Dut!ReplyError(s) PROVE (ValuesOK /\ SessionInv)'
    BY <1>7, SMT DEF Dut!ReplyError, Dut!ClassOf
<1>8. ASSUME NEW s \in Dut!LostStates, Dut!Lost(s) PROVE (ValuesOK /\ SessionInv)'
    BY <1>8, SMT DEF Dut!Lost
<1>9. CASE Dut!Environment
    <2>1. CASE Dut!Crash
        BY <2>1, SMT DEF Dut!Crash
    <2>2. CASE Dut!Restart
        BY <2>2, SMT DEF Dut!Restart
    <2>3. CASE Dut!Kill
        BY <2>3, SMT DEF Dut!Kill
    <2> QED BY <1>9, <2>1, <2>2, <2>3 DEF Dut!Environment
<1>10. CASE UNCHANGED Dut!vars
    BY <1>10, SMT
<1> QED
    BY <1>1, <1>2, <1>3, <1>4, <1>5, <1>6, <1>7, <1>8, <1>9, <1>10
    DEF Dut!Next, Dut!Client, Dut!Dial, Dut!Reply, Dut!ConnectionLost, Dut!Done

-----------------------------------------------------------------------------
(* The feedback: main() calls it as Impedance expects. *)
LEMMA FeedbackCalled == PendingInv /\ [Next]_vars => [Imp!Next]_(Imp!vars)
<1> SUFFICES ASSUME PendingInv, [Next]_vars PROVE [Imp!Next]_(Imp!vars)
    OBVIOUS
<1> USE DEF Imp!vars, impVars, PendingInv, Starting
<1>1. CASE UNCHANGED impVars
    BY <1>1
<1>2. ASSUME NEW ast \in Imp!ASTs, Generate(ast) PROVE Imp!Next
    BY <1>2 DEF Generate, Imp!Generate, Imp!Next
<1>3. CASE DryNext
    BY <1>3 DEF DryNext, Imp!Next
<1>4. CASE TellExecuted
    <2>1. CASE Head(rest) = "impedance"
        <3>1. pending
            BY <1>4, <2>1, HeadTailProperties DEF TellExecuted, Awaits
        <3> QED BY <1>4, <2>1, <3>1 DEF TellExecuted, Imp!Executed, Imp!Next
    <2> QED BY <1>1, <1>4, <2>1 DEF TellExecuted
<1>5. CASE TellError
    <2>1. CASE Head(rest) = "impedance"
        <3>1. pending
            BY <1>5, <2>1 DEF TellError, Awaits
        <3> QED BY <1>5, <2>1, <3>1 DEF TellError, Imp!Error, Imp!Next
    <2> QED BY <1>1, <1>5, <2>1 DEF TellError
<1> QED
    BY <1>1, <1>2, <1>3, <1>4, <1>5
    DEF Next, MainStep, GoTo, ParseOptions, LoadSchema, Seed, OpenLog, Connected, Stop,
        TellGenerated, CallTest, TestReturned, Proceed, Wake,
        DeviceStep, ServerStep, Interrupt, LogDbLost, Done, vars

LEMMA CountTyped ==
  ASSUME NEW occured \in [Prods -> Nat], NEW ast \in Imp!ASTs
  PROVE  Imp!Count(occured, ast) \in [Prods -> Nat]
  BY DEF Imp!Count

LEMMA FeedbackStep == ASSUME Imp!TypeOK, [Imp!Next]_(Imp!vars) PROVE Imp!TypeOK'
<1>1. pending' \in BOOLEAN
    BY Zenon
    DEF Imp!TypeOK, Imp!Next, Imp!Generate, Imp!NewQuery, Imp!Executed, Imp!FeedExecuted,
        Imp!Error, Imp!FeedError, Imp!Unjudged, Imp!vars
<1>2. ASSUME NEW ast \in Imp!ASTs, Imp!Generate(ast) PROVE Imp!TypeOK'
    BY <1>1, <1>2 DEF Imp!Generate, Imp!NewQuery, Imp!TypeOK
<1>3. CASE Imp!Executed
    BY <1>1, <1>3, CountTyped DEF Imp!Executed, Imp!FeedExecuted, Imp!TypeOK
<1>4. CASE Imp!Error
    BY <1>1, <1>4, CountTyped DEF Imp!Error, Imp!FeedError, Imp!TypeOK
<1>5. CASE Imp!Unjudged
    BY <1>1, <1>5 DEF Imp!Unjudged, Imp!TypeOK
<1>6. CASE UNCHANGED Imp!vars
    BY <1>1, <1>6 DEF Imp!vars, Imp!TypeOK
<1> QED BY <1>2, <1>3, <1>4, <1>5, <1>6 DEF Imp!Next

-----------------------------------------------------------------------------
(* The loops over the loggers: what is left of the list that main() pushed. *)
OptionsOK == options \in OptionSets
RestOK == rest \in {SubSeq(Loggers, i, Len(Loggers)) : i \in 1..Len(Loggers) + 1}

Names == {"impedance", "pqxx", "cerr"}

LEMMA ListOfLoggers ==
  /\ Loggers \in Seq(Names)
  /\ Len(Loggers) = IF LogTo THEN IF Verbose THEN 3 ELSE 2 ELSE IF Verbose THEN 2 ELSE 1
  /\ Loggers[1] = "impedance"
  /\ LogTo => Loggers[2] = "pqxx"
  /\ Verbose => Loggers[Len(Loggers)] = "cerr"
<1> DEFINE p == IF LogTo THEN <<"pqxx">> ELSE <<>>
           c == IF Verbose THEN <<"cerr">> ELSE <<>>
           i == <<"impedance">>
<1>1. i \in Seq(Names) /\ Len(i) = 1 /\ i[1] = "impedance"
    BY DEF Names
<1>2. p \in Seq(Names) /\ (LogTo => Len(p) = 1 /\ p[1] = "pqxx") /\ (~LogTo => Len(p) = 0)
    <2>1. /\ <<"pqxx">> \in Seq(Names) /\ Len(<<"pqxx">>) = 1
          /\ <<"pqxx">>[1] = "pqxx"
        BY DEF Names
    <2>2. <<>> \in Seq(Names) /\ Len(<<>>) = 0
        BY EmptySeq
    <2>3. CASE LogTo
        <3>1. p = <<"pqxx">>
            BY <2>3
        <3> HIDE DEF p
        <3> QED BY <2>1, <2>3, <3>1, Zenon
    <2>4. CASE ~LogTo
        <3>1. p = <<>>
            BY <2>4
        <3> HIDE DEF p
        <3> QED BY <2>2, <2>4, <3>1, Zenon
    <2> QED BY <2>3, <2>4
<1>3. c \in Seq(Names) /\ (Verbose => Len(c) = 1 /\ c[1] = "cerr") /\ (~Verbose => Len(c) = 0)
    <2>1. /\ <<"cerr">> \in Seq(Names) /\ Len(<<"cerr">>) = 1
          /\ <<"cerr">>[1] = "cerr"
        BY DEF Names
    <2>2. <<>> \in Seq(Names) /\ Len(<<>>) = 0
        BY EmptySeq
    <2>3. CASE Verbose
        <3>1. c = <<"cerr">>
            BY <2>3
        <3> HIDE DEF c
        <3> QED BY <2>1, <2>3, <3>1, Zenon
    <2>4. CASE ~Verbose
        <3>1. c = <<>>
            BY <2>4
        <3> HIDE DEF c
        <3> QED BY <2>2, <2>4, <3>1, Zenon
    <2> QED BY <2>3, <2>4
<1>4. Loggers = (i \o p) \o c
    BY DEF Loggers
<1> HIDE DEF i, p, c
<1>5. /\ i \o p \in Seq(Names) /\ Len(i \o p) = 1 + Len(p)
      /\ (i \o p)[1] = "impedance" /\ (LogTo => (i \o p)[2] = "pqxx")
    <2>1. /\ i \o p \in Seq(Names) /\ Len(i \o p) = Len(i) + Len(p)
          /\ \A k \in 1..Len(i) + Len(p) : (i \o p)[k] = IF k <= Len(i) THEN i[k] ELSE p[k - Len(i)]
        BY <1>1, <1>2, ConcatProperties
    <2>2. Len(p) \in Nat
        BY <1>2, LenProperties
    <2> QED BY <1>1, <1>2, <2>1, <2>2
<1>6. /\ (i \o p) \o c \in Seq(Names)
      /\ Len((i \o p) \o c) = 1 + Len(p) + Len(c)
      /\ ((i \o p) \o c)[1] = "impedance"
      /\ LogTo => ((i \o p) \o c)[2] = "pqxx"
      /\ Verbose => ((i \o p) \o c)[1 + Len(p) + 1] = "cerr"
    <2> DEFINE q == i \o p
    <2>1. q \in Seq(Names) /\ Len(q) = 1 + Len(p) /\ q[1] = "impedance" /\ (LogTo => q[2] = "pqxx")
        BY <1>5
    <2> HIDE DEF q
    <2>2. Len(p) \in Nat /\ Len(c) \in Nat
        BY <1>2, <1>3, LenProperties
    <2>3. /\ q \o c \in Seq(Names) /\ Len(q \o c) = Len(q) + Len(c)
          /\ \A k \in 1..Len(q) + Len(c) : (q \o c)[k] = IF k <= Len(q) THEN q[k] ELSE c[k - Len(q)]
        BY <1>3, <2>1, ConcatProperties
    <2>4. /\ (q \o c)[1] = "impedance"
          /\ LogTo => (q \o c)[2] = "pqxx"
          /\ Verbose => (q \o c)[1 + Len(p) + 1] = "cerr"
        BY <1>2, <1>3, <2>1, <2>2, <2>3
    <2> QED BY <2>1, <2>3, <2>4 DEF q
<1> QED BY <1>2, <1>3, <1>4, <1>6

(* Whom a loop that is at the i-th logger has yet to call. *)
LEMMA AwaitedFrom ==
  ASSUME NEW i \in 1..Len(Loggers) + 1, rest = SubSeq(Loggers, i, Len(Loggers))
  PROVE  /\ Len(rest) = Len(Loggers) + 1 - i
         /\ \A l : Awaits(l) <=> \E j \in i..Len(Loggers) : Loggers[j] = l
<1>1. Loggers \in Seq(Names)
    BY ListOfLoggers
<1>2. /\ Len(rest) = Len(Loggers) + 1 - i
      /\ \A l : HeldFrom(rest, 1, l) <=> HeldFrom(Loggers, i, l)
    BY <1>1, SuffixElements
<1> QED BY <1>2, Zenon DEF Awaits, HeldFrom

(* Which these are, by the position. *)
LEMMA AwaitedNames ==
  ASSUME NEW i \in 1..Len(Loggers) + 1, rest = SubSeq(Loggers, i, Len(Loggers))
  PROVE  /\ Awaits("impedance") <=> i = 1
         /\ Awaits("pqxx") <=> LogTo /\ i <= 2
         /\ Awaits("cerr") <=> Verbose /\ i <= Len(Loggers)
<1> DEFINE n == Len(Loggers)
<1>1. /\ n = IF LogTo THEN IF Verbose THEN 3 ELSE 2 ELSE IF Verbose THEN 2 ELSE 1
      /\ Loggers[1] = "impedance"
      /\ LogTo => Loggers[2] = "pqxx"
      /\ Verbose => Loggers[n] = "cerr"
    BY ListOfLoggers
<1>2. \A l : Awaits(l) <=> \E j \in i..n : Loggers[j] = l
    BY AwaitedFrom
<1>3. i \in 1..n + 1
    OBVIOUS
<1> HIDE DEF n
<1>4. \A j \in i..n : j = 1 \/ (LogTo /\ j = 2) \/ (Verbose /\ j = n)
    BY <1>1, <1>3
<1>5. Awaits("impedance") <=> i = 1
    BY <1>1, <1>2, <1>3, <1>4
<1>6. Awaits("pqxx") <=> LogTo /\ i <= 2
    <2>1. ASSUME LogTo, i <= 2 PROVE 2 \in i..n
        BY <1>1, <1>3, <2>1
    <2> QED BY <1>1, <1>2, <1>4, <2>1
<1>7. Awaits("cerr") <=> Verbose /\ i <= n
    <2>1. ASSUME i <= n PROVE n \in i..n
        BY <1>1, <1>3, <2>1
    <2> QED BY <1>1, <1>2, <1>4, <2>1
<1> QED BY <1>5, <1>6, <1>7 DEF n

(* A loop begins with all loggers to call ... *)
LEMMA LoopBegins ==
  ASSUME rest' = Loggers, options' = options
  PROVE  /\ RestOK'
         /\ Awaits("impedance")'
         /\ Awaits("pqxx")' <=> LogTo
         /\ Awaits("cerr")' <=> Verbose
<1>1. /\ Loggers \in Seq(Names) /\ Len(Loggers) \in 1..3 /\ Loggers[1] = "impedance"
      /\ LogTo => Len(Loggers) >= 2 /\ Loggers[2] = "pqxx"
      /\ Verbose => Loggers[Len(Loggers)] = "cerr"
      /\ \A i \in 1..Len(Loggers) : i = 1 \/ (LogTo /\ i = 2) \/ (Verbose /\ i = Len(Loggers))
    BY ListOfLoggers
<1>2. Loggers' = Loggers
    BY DEF Loggers, LogTo, Verbose
<1>3. rest' = SubSeq(Loggers', 1, Len(Loggers'))
    BY <1>1, <1>2, SubSeqFull
<1>4. RestOK'
    BY <1>1, <1>2, <1>3 DEF RestOK
<1>5. \A l : Awaits(l)' <=> \E i \in 1..Len(Loggers) : Loggers[i] = l
    BY DEF Awaits
<1> QED BY <1>1, <1>4, <1>5

(* ... calls them one by one in their order ... *)
CallsFeedback ==
    /\ Head(rest) = "impedance"
    /\ Awaits("impedance") /\ ~Awaits("impedance")'
    /\ (Awaits("pqxx") <=> LogTo) /\ (Awaits("pqxx")' <=> LogTo)
    /\ (Awaits("cerr") <=> Verbose) /\ (Awaits("cerr")' <=> Verbose)
CallsPqxx ==
    /\ Head(rest) = "pqxx" /\ LogTo
    /\ ~Awaits("impedance") /\ ~Awaits("impedance")'
    /\ Awaits("pqxx") /\ ~Awaits("pqxx")'
    /\ (Awaits("cerr") <=> Verbose) /\ (Awaits("cerr")' <=> Verbose)
CallsCerr ==
    /\ Head(rest) = "cerr" /\ Verbose
    /\ ~Awaits("impedance") /\ ~Awaits("impedance")'
    /\ ~Awaits("pqxx") /\ ~Awaits("pqxx")'
    /\ Awaits("cerr") /\ ~Awaits("cerr")'

LEMMA LoopCalls ==
  ASSUME RestOK, rest # <<>>, rest' = Tail(rest), options' = options
  PROVE  /\ RestOK'
         /\ CallsFeedback \/ CallsPqxx \/ CallsCerr
<1> USE DEF CallsFeedback, CallsPqxx, CallsCerr
<1> DEFINE n == Len(Loggers)
<1>1. PICK i \in 1..n + 1 : rest = SubSeq(Loggers, i, n)
    BY DEF RestOK
<1>2. /\ Loggers \in Seq(Names)
      /\ n = IF LogTo THEN IF Verbose THEN 3 ELSE 2 ELSE IF Verbose THEN 2 ELSE 1
      /\ Loggers[1] = "impedance"
      /\ LogTo => Loggers[2] = "pqxx"
      /\ Verbose => Loggers[n] = "cerr"
    BY ListOfLoggers
<1>3. n \in Nat /\ i \in Nat /\ i <= n
    <2>1. ASSUME i > n PROVE FALSE
        BY <1>1, <1>2, <2>1, SubSeqEmpty
    <2> QED BY <1>1, <1>2, <2>1
<1>4. Head(rest) = Loggers[i] /\ rest' = SubSeq(Loggers, i + 1, n)
    BY <1>1, <1>2, <1>3, HeadTailOfSubSeq
<1>5. Loggers' = Loggers /\ LogTo' = LogTo /\ Verbose' = Verbose
    BY DEF Loggers, LogTo, Verbose
<1>6. i + 1 \in 1..n + 1
    BY <1>3
<1>7. RestOK'
    BY <1>4, <1>5, <1>6 DEF RestOK
<1>8. /\ Awaits("impedance") <=> i = 1
      /\ Awaits("pqxx") <=> LogTo /\ i <= 2
      /\ Awaits("cerr") <=> Verbose /\ i <= n
    BY <1>1, AwaitedNames
<1>9. \A l : Awaits(l)' <=> \E j \in (i + 1)..n : Loggers[j] = l
    <2>1. \A l : HeldFrom(rest', 1, l) <=> HeldFrom(Loggers, i + 1, l)
        BY <1>2, <1>4, <1>6, SuffixElements
    <2> QED BY <2>1, Zenon DEF Awaits, HeldFrom
<1> HIDE DEF n
<1>10. \A j \in 1..n : j = 1 \/ (LogTo /\ j = 2) \/ (Verbose /\ j = n)
    BY <1>2
<1>11. /\ ~Awaits("impedance")'
       /\ Awaits("pqxx")' <=> LogTo /\ i = 1
       /\ Awaits("cerr")' <=> Verbose /\ i < n
    <2>1. \A j \in (i + 1)..n : j # 1 /\ j \in 1..n
        BY <1>3
    <2>2. ~Awaits("impedance")'
        BY <1>2, <1>9, <1>10, <2>1
    <2>3. Awaits("pqxx")' <=> LogTo /\ i = 1
        <3>1. ASSUME LogTo, i = 1 PROVE 2 \in (i + 1)..n
            BY <1>2, <3>1
        <3>2. ASSUME NEW j \in (i + 1)..n, Loggers[j] = "pqxx" PROVE LogTo /\ i = 1
            BY <1>2, <1>3, <1>10, <2>1, <3>2
        <3> QED BY <1>2, <1>9, <3>1, <3>2
    <2>4. Awaits("cerr")' <=> Verbose /\ i < n
        <3>1. ASSUME i < n PROVE n \in (i + 1)..n
            BY <1>3, <3>1
        <3>2. ASSUME NEW j \in (i + 1)..n, Loggers[j] = "cerr" PROVE Verbose /\ i < n
            BY <1>2, <1>3, <1>10, <2>1, <3>2
        <3> QED BY <1>2, <1>9, <3>1, <3>2
    <2> QED BY <2>2, <2>3, <2>4
<1>12. CASE i = 1
    BY <1>2, <1>4, <1>7, <1>8, <1>11, <1>12
<1>13. CASE i = 2 /\ LogTo
    BY <1>2, <1>4, <1>7, <1>8, <1>11, <1>13
<1>14. CASE i # 1 /\ ~(i = 2 /\ LogTo)
    <2>1. Verbose /\ i = n
        BY <1>3, <1>10, <1>14
    <2> QED BY <1>2, <1>3, <1>4, <1>7, <1>8, <1>11, <1>14, <2>1
<1> QED BY <1>12, <1>13, <1>14

(* ... and is over when there is none left. *)
LEMMA LoopOver == rest = <<>> => \A l : ~Awaits(l)
  BY DEF Awaits

-----------------------------------------------------------------------------
(* main() itself: its own variables, step by step. *)
CerrOK == cerr \in [queries : Nat, nodes : Nat, dots : Nat, err : [Symbols -> Nat]]
LogOK == log \in [queries : Nat, nodes : Nat, stat : Nat \cup {-1}, err : [Fates -> Nat]]
MainOK ==
    /\ OptionsOK
    /\ main \in Starting \cup {"connect", "gen", "generated", "test", "executed",
                 "error", "sleep"} \cup Exits
    /\ RestOK
    /\ queries_generated \in 0..MaxQueries + 1
    /\ CerrOK
    /\ LogOK
    /\ logdb \in {"ok", "broken"}

MainInv ==
    /\ MainOK
    /\ CountInv /\ NodesInv /\ ErrorsInv /\ StatInv
    /\ PendingInv /\ BudgetInv /\ DeviceInv /\ ExitInv

LEMMA Parts ==
  /\ IInv <=> FlagsOK /\ ValuesOK /\ SessionInv /\ Imp!TypeOK /\ MainInv
  /\ TypeOK <=> FlagsOK /\ ValuesOK /\ Imp!TypeOK /\ MainOK
<1>1. TypeOK <=> Dut!TypeOK /\ Imp!TypeOK /\ MainOK
    BY DEF TypeOK, MainOK, OptionsOK, RestOK, CerrOK, LogOK
<1> QED BY <1>1, SessionParts DEF IInv, MainInv

LEMMA NodesCounted == Imp!TypeOK => Nodes \in Nat
<1> SUFFICES ASSUME Imp!TypeOK PROVE Nodes \in Nat
    OBVIOUS
<1>1. query \in [Prods -> Nat]
    BY FeedbackAssumption DEF Imp!TypeOK, Imp!ASTs
<1> QED BY <1>1, FeedbackAssumption, SumNatural DEF Nodes

LEMMA NodesKept == query' = query => Nodes' = Nodes
  BY DEF Nodes, FoldFunction, FoldFunctionOnSet, MapThenFoldSet

(* What cerr_logger and pqxx_logger add up. *)
LEMMA Errors == CerrOK => CerrErrors \in Nat
  BY DEF CerrOK, CerrErrors, Symbols

LEMMA ErrorOnce ==
  ASSUME CerrOK, cerr' = ErrorCounted
  PROVE  /\ CerrOK' /\ CerrErrors' = CerrErrors + 1
         /\ cerr'.queries = cerr.queries /\ cerr'.nodes = cerr.nodes /\ cerr'.dots = cerr.dots
<1> DEFINE s == SymbolOf(outcome.class)
<1>1. s \in Symbols
    BY DEF SymbolOf, Symbols
<1>2. cerr' = [cerr EXCEPT !.err = [cerr.err EXCEPT ![s] = cerr.err[s] + 1]]
    BY DEF ErrorCounted, CerrOK
<1> HIDE DEF s
<1>3. /\ cerr'.err = [cerr.err EXCEPT ![s] = cerr.err[s] + 1]
      /\ cerr'.queries = cerr.queries /\ cerr'.nodes = cerr.nodes /\ cerr'.dots = cerr.dots
    BY <1>2 DEF CerrOK
<1>4. CerrOK'
    BY <1>1, <1>2 DEF CerrOK
<1>5. CerrErrors' = CerrErrors + 1
    BY <1>1, <1>3 DEF CerrOK, CerrErrors, Symbols
<1> QED BY <1>3, <1>4, <1>5

LEMMA ErrorOnceLogged ==
  ASSUME LogOK, NEW fate \in Fates, ErrorLogged(fate)
  PROVE  /\ LogOK' /\ LogErrors' = LogErrors + 1
         /\ log'.queries = log.queries /\ log'.nodes = log.nodes /\ log'.stat = log.stat
<1>1. log' = [log EXCEPT !.err = [log.err EXCEPT ![fate] = log.err[fate] + 1]]
    BY DEF ErrorLogged, LogOK
<1>2. /\ log'.err = [log.err EXCEPT ![fate] = log.err[fate] + 1]
      /\ log'.queries = log.queries /\ log'.nodes = log.nodes /\ log'.stat = log.stat
    BY <1>1 DEF LogOK
<1>3. LogOK'
    BY <1>1 DEF LogOK
<1>4. LogErrors' = LogErrors + 1
    BY <1>2 DEF LogOK, LogErrors, Fates
<1> QED BY <1>2, <1>3, <1>4

LEMMA DotOnce ==
  ASSUME CerrOK, cerr' = [cerr EXCEPT !.dots = @ + 1]
  PROVE  /\ CerrOK' /\ CerrErrors' = CerrErrors
         /\ cerr'.queries = cerr.queries /\ cerr'.nodes = cerr.nodes /\ cerr'.dots = cerr.dots + 1
  BY DEF CerrOK, CerrErrors

LEMMA CerrCollects ==
  ASSUME CerrOK, Nodes \in Nat, cerr' = Collected(cerr)
  PROVE  /\ CerrOK' /\ CerrErrors' = CerrErrors /\ cerr'.queries = cerr.queries + 1
         /\ cerr'.nodes = cerr.nodes + Nodes /\ cerr'.dots = cerr.dots
<1> DEFINE c == [cerr EXCEPT !.queries = cerr.queries + 1]
<1>1. /\ c \in [queries : Nat, nodes : Nat, dots : Nat, err : [Symbols -> Nat]]
      /\ c.queries = cerr.queries + 1 /\ c.nodes = cerr.nodes
      /\ c.dots = cerr.dots /\ c.err = cerr.err
    BY DEF CerrOK
<1>2. Collected(cerr) = [c EXCEPT !.nodes = c.nodes + Nodes]
    BY DEF Collected, Nodes, CerrOK
<1> HIDE DEF c
<1>3. cerr' = [c EXCEPT !.nodes = c.nodes + Nodes]
    BY <1>2
<1>4. /\ cerr' \in [queries : Nat, nodes : Nat, dots : Nat, err : [Symbols -> Nat]]
      /\ cerr'.queries = c.queries /\ cerr'.nodes = c.nodes + Nodes
      /\ cerr'.dots = c.dots /\ cerr'.err = c.err
    BY <1>1, <1>3
<1> QED BY <1>1, <1>4 DEF CerrOK, CerrErrors

LEMMA LogCollects ==
  ASSUME LogOK, Nodes \in Nat
  PROVE  /\ Collected(log) \in [queries : Nat, nodes : Nat, stat : Nat \cup {-1}, err : [Fates -> Nat]]
         /\ Collected(log).queries = log.queries + 1
         /\ Collected(log).nodes = log.nodes + Nodes
         /\ Collected(log).stat = log.stat /\ Collected(log).err = log.err
<1> DEFINE l == [log EXCEPT !.queries = log.queries + 1]
<1>1. /\ l \in [queries : Nat, nodes : Nat, stat : Nat \cup {-1}, err : [Fates -> Nat]]
      /\ l.queries = log.queries + 1 /\ l.nodes = log.nodes
      /\ l.stat = log.stat /\ l.err = log.err
    BY DEF LogOK
<1>2. Collected(log) = [l EXCEPT !.nodes = l.nodes + Nodes]
    BY DEF Collected, Nodes, LogOK
<1> HIDE DEF l
<1> QED BY <1>1, <1>2

(* The stat row is due when the next count is a multiple of StatEvery. *)
LEMMA NextRemainder ==
  ASSUME NEW n \in Nat, NEW E \in Nat \ {0}
  PROVE  /\ n % E \in 0..(E - 1)
         /\ n % E # E - 1 => (n + 1) % E = (n % E) + 1
<1> DEFINE q == n \div E
           r == n % E
           u == (n + 1) \div E
           s == (n + 1) % E
<1>1. n = E * q + r /\ n + 1 = E * u + s /\ q \in Nat /\ u \in Nat
    OBVIOUS
<1>2. r \in 0..(E - 1) /\ s \in 0..(E - 1)
    OBVIOUS
<1> HIDE DEF q, r, u, s
<1>3. ASSUME r # E - 1 PROVE s = r + 1
    <2>1. E * u - E * q = r + 1 - s
        BY <1>1, <1>2
    <2>2. CASE u > q
        <3>1. E * u >= E * (q + 1) /\ E * (q + 1) = E * q + E
            BY <1>1, <2>2, Z3
        <3> QED BY <1>1, <1>2, <1>3, <2>1, <3>1
    <2>3. CASE u < q
        <3>1. E * q >= E * (u + 1) /\ E * (u + 1) = E * u + E
            BY <1>1, <2>3, Z3
        <3> QED BY <1>1, <1>2, <1>3, <2>1, <3>1
    <2>4. CASE u = q
        BY <1>1, <1>2, <2>4
    <2> QED BY <1>1, <2>2, <2>3, <2>4
<1> QED BY <1>2, <1>3 DEF r, s

LEMMA LagBounded ==
  ASSUME NEW n \in Nat, NEW s \in Nat \cup {-1}, NEW t,
         n - 1 - s <= n % StatEvery, t = IF StatDue(n) THEN n ELSE s
  PROVE  n - t <= (n + 1) % StatEvery
<1>1. StatEvery \in Nat \ {0}
    BY StatAssumption
<1>2. n % StatEvery # StatEvery - 1 => (n + 1) % StatEvery = (n % StatEvery) + 1
    BY <1>1, NextRemainder
<1>3. (n + 1) % StatEvery \in 0..(StatEvery - 1) /\ n % StatEvery \in 0..(StatEvery - 1)
    BY <1>1
<1>4. CASE StatDue(n)
    BY <1>1, <1>3, <1>4
<1>5. CASE ~StatDue(n)
    BY <1>1, <1>2, <1>3, <1>5 DEF StatDue
<1> QED BY <1>4, <1>5

(* Where no logger is called. *)
LEMMA Kept ==
  ASSUME UNCHANGED <<options, rest, cerr>>
  PROVE  /\ OptionsOK => OptionsOK'
         /\ RestOK => RestOK'
         /\ CerrOK => CerrOK'
         /\ CerrErrors' = CerrErrors
         /\ LogTo' <=> LogTo
         /\ Verbose' <=> Verbose
         /\ DryRun' <=> DryRun
         /\ \A l : Awaits(l)' <=> Awaits(l)
<1>1. Loggers' = Loggers
    BY DEF Loggers, LogTo, Verbose
<1> QED BY <1>1 DEF OptionsOK, RestOK, CerrOK, CerrErrors, LogTo, Verbose, DryRun, Awaits

(* A report while main() runs. *)
LEMMA ReportNow == IInv => ReportConsistent
<1> SUFFICES ASSUME IInv, Running, Verbose, ~DryRun
             PROVE  cerr.queries - (cerr.dots + CerrErrors) \in {0, 1}
    BY Parts DEF MainInv, ExitInv, ReportConsistent
<1>1. queries_generated \in Nat
    BY Parts, BudgetAssumption DEF MainInv, MainOK
<1>2. cerr.queries = Announced("cerr") /\ cerr.dots + CerrErrors = Judged("cerr")
    BY Parts DEF MainInv, CountInv
<1> QED BY <1>1, <1>2 DEF Announced, Judged, Round

(* Where main() only goes on to another place; and from where to where. *)
Places == Starting \cup {"connect", "gen", "generated", "test", "executed",
                         "error", "sleep"} \cup Exits

Goes(place) ==
    /\ GoTo(place)
    /\ \/ main = "options" /\ place = "schema" /\ ~options.help
       \/ main = "options" /\ place = "exit0" /\ options.help
       \/ main = "schema" /\ place \in {"seed", "exit1", "aborted"}
       \/ main = "seed" /\ place = "openlog" /\ LogTo
       \/ main = "seed" /\ place = AfterLogger /\ ~LogTo
       \/ main = "seed" /\ place = "exit1"
       \/ main = "connect" /\ place = "gen" /\ life = "live"
       \/ main = "connect" /\ place = "exit1" /\ life # "live"
       \/ main \in {"executed", "error"} /\ rest = <<>> /\ place \in {"gen", "sleep"}
       \/ main = "sleep" /\ place = "gen"
       \/ Running /\ main \notin Starting /\ place = "interrupted"

Unchanged ==
    /\ options' = options /\ queries_generated' = queries_generated
    /\ log' = log /\ logdb' = logdb /\ cerr' = cerr /\ Nodes' = Nodes
    /\ pending' = pending /\ finished' = finished
    /\ life' = life /\ step' = step
    /\ CerrErrors' = CerrErrors
    /\ LogTo' <=> LogTo
    /\ Verbose' <=> Verbose
    /\ DryRun' <=> DryRun
    /\ \A l : Awaits(l)' <=> Awaits(l)

LEMMA Moved ==
  ASSUME IInv, NEW place \in Places, GoTo(place)
  PROVE  MainOK' /\ main' = place /\ Unchanged /\ ReportConsistent'
<1>1. /\ UNCHANGED <<options, rest, queries_generated, cerr, log, logdb>>
      /\ UNCHANGED <<query, pending, finished, life, step>> /\ main' = place
    BY DEF GoTo, dutVars, impVars
<1>2. MainOK
    BY Parts DEF MainInv
<1>3. /\ OptionsOK => OptionsOK'
      /\ RestOK => RestOK'
      /\ CerrOK => CerrOK'
      /\ CerrErrors' = CerrErrors
      /\ LogTo' <=> LogTo
      /\ Verbose' <=> Verbose
      /\ DryRun' <=> DryRun
      /\ \A l : Awaits(l)' <=> Awaits(l)
    BY <1>1, Kept
<1>4. MainOK'
    BY <1>1, <1>2, <1>3 DEF MainOK, LogOK, Places
<1>5. Nodes' = Nodes
    BY <1>1, NodesKept
<1>6. ReportConsistent'
    BY <1>1, <1>3, ReportNow DEF ReportConsistent
<1> QED BY <1>1, <1>3, <1>4, <1>5, <1>6 DEF Unchanged

LEMMA GoesOn == ASSUME IInv, NEW place, Goes(place) PROVE MainInv'
<1> USE DEF Starting, Exits, Running
<1>1. MainInv
    BY Parts
<1>2. place \in Places
    BY DEF Goes, Places, AfterLogger
<1>3. MainOK' /\ main' = place /\ Unchanged /\ ReportConsistent'
    BY <1>2, Moved DEF Goes
<1>4. rest = <<>> => \A l : ~Awaits(l)
    BY LoopOver
<1> USE <1>1, <1>2, <1>3, <1>4 DEF MainInv, Goes, AfterLogger, Unchanged
<1>5. CountInv'
    BY DEF CountInv, Announced, Judged, Round
<1>6. NodesInv' /\ ErrorsInv'
    BY DEF NodesInv, ErrorsInv, ErrorsHeard, LogErrors
<1>7. StatInv' /\ PendingInv'
    BY DEF StatInv, PendingInv
<1>8. BudgetInv'
    BY DEF BudgetInv
<1>9. DeviceInv'
    BY Parts DEF DeviceInv, Dut!Idle, Dut!InTest
<1>10. ExitInv'
    BY DEF ExitInv, ExactBudget, ServerNeverEndsRun, BudgetInv, DeviceInv
<1> QED BY <1>3, <1>5, <1>6, <1>7, <1>8, <1>9, <1>10

LEMMA OnlyGoes ==
  ParseOptions \/ LoadSchema \/ Seed \/ Connected \/ Proceed \/ Wake \/ Interrupt
  => \E place : Goes(place)
<1>1. CASE ParseOptions
    BY <1>1 DEF ParseOptions, Goes
<1>2. CASE LoadSchema
    BY <1>2 DEF LoadSchema, Goes
<1>3. CASE Seed
    BY <1>3 DEF Seed, Goes
<1>4. CASE Connected
    BY <1>4 DEF Connected, Goes
<1>5. CASE Proceed
    <2>1. AfterRound \in {"gen", "sleep"}
        BY DEF AfterRound
    <2> QED BY <1>5, <2>1 DEF Proceed, Goes
<1>6. CASE Wake
    BY <1>6 DEF Wake, Goes
<1>7. CASE Interrupt
    BY <1>7 DEF Interrupt, Goes
<1> QED BY <1>1, <1>2, <1>3, <1>4, <1>5, <1>6, <1>7

(* The logging database is opened before anything is counted. *)
LEMMA OpenLogStep == ASSUME IInv, OpenLog PROVE MainInv'
<1> USE DEF Starting, Exits, Running
<1>1. MainInv
    BY Parts
<1>2. /\ main = "openlog" /\ (main' = AfterLogger \/ main' = "exit1")
      /\ main' # "exit1" => log' = [log EXCEPT !.stat = 0]
      /\ log' = [log EXCEPT !.stat = 0] \/ log' = log
      /\ UNCHANGED <<options, rest, queries_generated, cerr, logdb>>
      /\ UNCHANGED <<query, pending, finished, life, step>>
    BY DEF OpenLog, dutVars, impVars, AfterLogger
<1>3. /\ OptionsOK' /\ RestOK' /\ CerrOK'
      /\ CerrErrors' = CerrErrors
      /\ LogTo' <=> LogTo
      /\ Verbose' <=> Verbose
      /\ DryRun' <=> DryRun
      /\ \A l : Awaits(l)' <=> Awaits(l)
    BY <1>1, <1>2, Kept DEF MainInv, MainOK
<1>4. /\ LogOK' /\ log'.queries = log.queries /\ log'.nodes = log.nodes /\ log'.err = log.err
      /\ main' # "exit1" => log'.stat = 0
    BY <1>1, <1>2 DEF MainInv, MainOK, LogOK
<1>5. Nodes' = Nodes
    BY <1>2, NodesKept
<1>6. ReportConsistent'
    BY <1>2, <1>3, ReportNow DEF ReportConsistent
<1>7. MainOK'
    BY <1>1, <1>2, <1>3, <1>4 DEF MainInv, MainOK, AfterLogger
<1> USE <1>1, <1>2, <1>3, <1>4, <1>5, <1>6 DEF MainInv, AfterLogger
<1>8. CountInv'
    BY DEF CountInv, Announced, Judged, Round
<1>9. NodesInv' /\ ErrorsInv'
    BY DEF NodesInv, ErrorsInv, ErrorsHeard, LogErrors
<1>10. StatInv'
    <2>1. LogTo => log.queries = 0
        BY DEF CountInv, Announced, Round, BudgetInv
    <2>2. 1 % StatEvery \in Nat
        BY NextRemainder, StatAssumption
    <2> QED BY <2>1, <2>2 DEF StatInv
<1>11. PendingInv' /\ BudgetInv'
    BY DEF PendingInv, BudgetInv
<1>12. DeviceInv'
    BY DEF DeviceInv, Dut!Idle, Dut!InTest
<1>13. ExitInv'
    BY DEF ExitInv, ExactBudget, ServerNeverEndsRun, BudgetInv, DeviceInv
<1> QED BY <1>7, <1>8, <1>9, <1>10, <1>11, <1>12, <1>13

(* The budget is spent, and every query has been announced and judged; or    *)
(* it cannot be read.                                                         *)
LEMMA StopStep == ASSUME IInv, Stop PROVE MainInv'
<1> USE DEF Starting, Exits, Running
<1>1. MainInv
    BY Parts
<1>2. /\ main = "gen" /\ main' = IF BudgetUnreadable THEN "exit1" ELSE "exit0"
      /\ BudgetUnreadable \/ BudgetSpent
      /\ queries_generated' = queries_generated + 1
      /\ UNCHANGED <<options, rest, cerr, log, logdb>>
    BY DEF Stop
<1>3. /\ OptionsOK' /\ RestOK' /\ CerrOK'
      /\ CerrErrors' = CerrErrors
      /\ LogTo' <=> LogTo
      /\ Verbose' <=> Verbose
      /\ DryRun' <=> DryRun
    BY <1>1, <1>2, Kept DEF MainInv, MainOK
<1>4. ~DryRun /\ ~options.help /\ queries_generated \in 0..MaxQueries
    BY <1>1, <1>2, BudgetAssumption DEF MainInv, MainOK, BudgetSpent, BudgetUnreadable, BudgetInv
<1>5. MainOK'
    BY <1>1, <1>2, <1>3, <1>4, BudgetAssumption DEF MainInv, MainOK, LogOK
<1>6. ReportConsistent'
    BY <1>2, <1>3, ReportNow DEF ReportConsistent
<1>7. ExitInv'
    <2>1. CASE BudgetUnreadable
        <3>1. queries_generated = 0 /\ options.bad_budget
            BY <1>1, <1>2, <2>1 DEF MainInv, BudgetInv, BudgetUnreadable
        <3>2. ExactBudget' /\ ServerNeverEndsRun'
            BY <1>2, <2>1, <3>1 DEF ExactBudget, ServerNeverEndsRun
        <3> QED BY <1>6, <3>2 DEF ExitInv
    <2>2. CASE ~BudgetUnreadable
        <3>1. queries_generated = MaxQueries
            BY <1>2, <1>4, <2>2, BudgetAssumption DEF BudgetSpent
        <3>2. Verbose => cerr.queries = MaxQueries /\ cerr.dots + CerrErrors = MaxQueries
            BY <1>1, <1>2, <1>4, <3>1 DEF MainInv, CountInv, Announced, Judged, Round
        <3>3. ExactBudget' /\ ServerNeverEndsRun'
            BY <1>2, <1>3, <1>4, <2>2, <3>2 DEF ExactBudget, ServerNeverEndsRun
        <3> QED BY <1>6, <3>3 DEF ExitInv
    <2> QED BY <2>1, <2>2
<1>8. CountInv' /\ NodesInv' /\ ErrorsInv' /\ StatInv' /\ PendingInv' /\ BudgetInv' /\ DeviceInv'
    BY <1>2 DEF CountInv, NodesInv, ErrorsInv, StatInv, PendingInv, BudgetInv, DeviceInv
<1> QED BY <1>5, <1>7, <1>8 DEF MainInv

(* A new query is to be announced to every logger. *)
LEMMA GenerateStep == ASSUME IInv, NEW ast \in Imp!ASTs, Generate(ast) PROVE MainInv'
<1> USE DEF Starting, Exits, Running
<1>1. MainInv
    BY Parts
<1>2. /\ main = "gen" /\ main' = "generated" /\ rest' = Loggers
      /\ ~BudgetSpent /\ ~BudgetUnreadable
      /\ queries_generated' = IF DryRun THEN queries_generated ELSE queries_generated + 1
      /\ pending' = TRUE
      /\ UNCHANGED <<options, cerr, log, logdb, finished, life, step>>
    BY DEF Generate, Imp!NewQuery, dutVars
<1>3. /\ RestOK' /\ Awaits("impedance")'
      /\ Awaits("pqxx")' <=> LogTo
      /\ Awaits("cerr")' <=> Verbose
    BY <1>2, LoopBegins
<1>4. /\ CerrErrors' = CerrErrors
      /\ LogTo' <=> LogTo
      /\ Verbose' <=> Verbose
      /\ DryRun' <=> DryRun
    BY <1>2 DEF CerrErrors, LogTo, Verbose, DryRun
<1>5. MainOK'
    BY <1>1, <1>2, <1>3, BudgetAssumption DEF MainInv, MainOK, OptionsOK, CerrOK, LogOK, BudgetSpent, BudgetInv
<1>6. queries_generated \in Nat /\ queries_generated' \in Nat
    BY <1>1, <1>5, BudgetAssumption DEF MainInv, MainOK
<1> USE <1>1, <1>2, <1>3, <1>4, <1>6 DEF MainInv
<1>7. CountInv'
    BY DEF CountInv, Announced, Judged, Round
<1>8. NodesInv' /\ ErrorsInv'
    BY DEF NodesInv, ErrorsInv, ErrorsHeard, LogErrors
<1>9. StatInv' /\ PendingInv'
    BY DEF StatInv, PendingInv
<1>10. BudgetInv'
    BY BudgetAssumption DEF BudgetInv, BudgetSpent, BudgetUnreadable
<1>11. DeviceInv'
    BY DEF DeviceInv, Dut!Idle, Dut!InTest
<1>12. ExitInv'
    BY DEF ExitInv
<1> QED BY <1>5, <1>7, <1>8, <1>9, <1>10, <1>11, <1>12

(* The announcements: only these count queries and nodes. *)
LEMMA TellGeneratedStep == ASSUME IInv, TellGenerated PROVE MainInv'
<1> USE DEF Starting, Exits, Running
<1>1. MainInv /\ Nodes \in Nat
    BY Parts, NodesCounted
<1>2. /\ main = "generated" /\ rest # <<>> /\ rest' = Tail(rest)
      /\ UNCHANGED <<options, queries_generated, logdb>>
      /\ UNCHANGED <<query, pending, finished, life, step>>
    BY DEF TellGenerated, dutVars, impVars
<1>3. Nodes' = Nodes
    BY <1>2, NodesKept
<1>4. /\ LogTo' <=> LogTo
      /\ Verbose' <=> Verbose
      /\ DryRun' <=> DryRun
      /\ OptionsOK'
    BY <1>1, <1>2 DEF LogTo, Verbose, DryRun, OptionsOK, MainInv, MainOK
<1>5. queries_generated \in Nat
    BY <1>1, BudgetAssumption DEF MainInv, MainOK
<1> USE DEF CallsFeedback, CallsPqxx, CallsCerr
<1>6. RestOK' /\ (CallsFeedback \/ CallsPqxx \/ CallsCerr)
    BY <1>1, <1>2, LoopCalls DEF MainInv, MainOK
<1> USE <1>1, <1>2, <1>3, <1>4, <1>5 DEF MainInv
<1>7. CASE CallsFeedback
    <2>1. UNCHANGED <<main, cerr, log>>
        BY <1>7 DEF TellGenerated
    <2>2. CerrErrors' = CerrErrors
        BY <2>1 DEF CerrErrors
    <2>3. MainOK'
        BY <1>6, <2>1 DEF MainOK, CerrOK, LogOK
    <2> USE <2>1, <2>2, <1>7
    <2>4. CountInv'
        BY DEF CountInv, Announced, Judged, Round
    <2>5. NodesInv' /\ ErrorsInv'
        BY DEF NodesInv, ErrorsInv, ErrorsHeard, LogErrors
    <2>6. StatInv' /\ PendingInv' /\ BudgetInv'
        BY DEF StatInv, PendingInv, BudgetInv
    <2>7. DeviceInv' /\ ExitInv'
        BY DEF DeviceInv, Dut!Idle, Dut!InTest, ExitInv
    <2> QED BY <2>3, <2>4, <2>5, <2>6, <2>7
<1>8. CASE CallsCerr
    <2>1. cerr' = Collected(cerr) /\ UNCHANGED <<main, log>>
        BY <1>8 DEF TellGenerated
    <2>2. /\ CerrOK' /\ CerrErrors' = CerrErrors /\ cerr'.queries = cerr.queries + 1
          /\ cerr'.nodes = cerr.nodes + Nodes /\ cerr'.dots = cerr.dots
        BY <2>1, CerrCollects DEF MainOK
    <2>3. MainOK'
        BY <1>6, <2>1, <2>2 DEF MainOK, LogOK
    <2> USE <2>1, <2>2, <1>8
    <2>4. CountInv'
        BY DEF CountInv, Announced, Judged, Round
    <2>5. NodesInv' /\ ErrorsInv'
        BY DEF NodesInv, ErrorsInv, ErrorsHeard, LogErrors
    <2>6. StatInv' /\ PendingInv' /\ BudgetInv'
        BY DEF StatInv, PendingInv, BudgetInv
    <2>7. DeviceInv' /\ ExitInv'
        BY DEF DeviceInv, Dut!Idle, Dut!InTest, ExitInv
    <2> QED BY <2>3, <2>4, <2>5, <2>6, <2>7
<1>9. CASE CallsPqxx
    <2> DEFINE l == Collected(log)
               late == main' = "exit1"
    <2>1. /\ l \in [queries : Nat, nodes : Nat, stat : Nat \cup {-1}, err : [Fates -> Nat]]
          /\ l.queries = log.queries + 1 /\ l.nodes = log.nodes + Nodes
          /\ l.stat = log.stat /\ l.err = log.err
        BY LogCollects DEF MainOK
    <2>2. /\ cerr' = cerr
          /\ late => log' = l /\ StatDue(l.queries)
          /\ ~late => /\ main' = main
                      /\ log' = IF StatDue(l.queries) THEN [l EXCEPT !.stat = l.queries] ELSE l
        BY <1>9 DEF TellGenerated, StatRow
    <2> HIDE DEF l
    <2>3. /\ LogOK' /\ log'.queries = log.queries + 1 /\ log'.nodes = log.nodes + Nodes
          /\ log'.err = log.err
          /\ ~late => log'.stat = IF StatDue(l.queries) THEN l.queries ELSE log.stat
        BY <2>1, <2>2 DEF LogOK
    <2>4. CerrErrors' = CerrErrors /\ CerrOK'
        BY <2>2 DEF CerrErrors, CerrOK, MainOK
    <2>5. MainOK'
        BY <1>6, <2>2, <2>3, <2>4 DEF MainOK
    <2>6. ReportConsistent'
        BY <1>4, <2>2, <2>4, ReportNow DEF ReportConsistent
    <2> USE <1>9, <2>4
    <2>7. CASE late
        <3>1. CountInv' /\ NodesInv' /\ ErrorsInv' /\ StatInv' /\ PendingInv' /\ BudgetInv' /\ DeviceInv'
            BY <2>7 DEF CountInv, NodesInv, ErrorsInv, StatInv, PendingInv, BudgetInv, DeviceInv
        <3>2. log'.stat < log'.queries
            <4>1. log.stat <= log.queries /\ log.queries \in Nat /\ log.stat \in Nat \cup {-1}
                BY <1>9 DEF StatInv, MainOK, LogOK
            <4> QED BY <2>1, <2>2, <2>7, <4>1
        <3>3. ExitInv'
            BY <2>2, <2>6, <2>7, <3>2 DEF ExitInv, ExactBudget, ServerNeverEndsRun, LogTo
        <3> QED BY <2>5, <3>1, <3>3
    <2>8. CASE ~late
        <3> USE <2>2, <2>3, <2>8
        <3>1. CountInv'
            BY DEF CountInv, Announced, Judged, Round
        <3>2. NodesInv' /\ ErrorsInv'
            BY DEF NodesInv, ErrorsInv, ErrorsHeard, LogErrors
        <3>3. StatInv'
            <4>1. SUFFICES /\ log'.stat <= log'.queries
                           /\ log'.queries - log'.stat <= (log'.queries + 1) % StatEvery
                BY DEF StatInv
            <4>2. log.queries \in Nat /\ (log.stat \in Nat \cup {-1}) /\ StatEvery \in Nat \ {0}
                BY StatAssumption DEF MainOK, LogOK
            <4>3. /\ log.stat <= log.queries
                  /\ log.queries - log.stat <= (log.queries + 1) % StatEvery
                BY DEF StatInv
            <4> DEFINE n == log.queries + 1
            <4>4. /\ n \in Nat /\ log'.queries = n /\ n - 1 = log.queries
                  /\ log'.stat = IF StatDue(n) THEN n ELSE log.stat
                BY <4>2, <2>1
            <4> HIDE DEF n
            <4>5. n - 1 - log.stat <= n % StatEvery
                BY <4>3, <4>4 DEF n
            <4>6. log'.stat <= log'.queries
                BY <4>2, <4>3, <4>4
            <4> QED BY <4>2, <4>4, <4>5, <4>6, LagBounded
        <3>4. PendingInv' /\ BudgetInv'
            BY DEF PendingInv, BudgetInv
        <3>5. DeviceInv' /\ ExitInv'
            BY DEF DeviceInv, Dut!Idle, Dut!InTest, ExitInv
        <3> QED BY <2>5, <3>1, <3>2, <3>3, <3>4, <3>5
    <2> QED BY <2>7, <2>8
<1> QED BY <1>6, <1>7, <1>8, <1>9

(* Everybody has been told of the query: it is tested ... *)
LEMMA CallTestStep == ASSUME IInv, CallTest PROVE MainInv'
<1> USE DEF Starting, Exits, Running
<1>1. MainInv
    BY Parts
<1>2. /\ main = "generated" /\ rest = <<>> /\ ~DryRun /\ main' = "test" /\ life' = life /\ life = "live"
      /\ UNCHANGED <<options, rest, queries_generated, cerr, log, logdb>>
      /\ UNCHANGED <<query, pending, finished>>
    BY DEF CallTest, Dut!Test, Dut!Idle, impVars
<1>3. /\ OptionsOK' /\ RestOK' /\ CerrOK'
      /\ CerrErrors' = CerrErrors
      /\ LogTo' <=> LogTo
      /\ Verbose' <=> Verbose
      /\ DryRun' <=> DryRun
      /\ \A l : Awaits(l)' <=> Awaits(l)
    BY <1>1, <1>2, Kept DEF MainInv, MainOK
<1>4. \A l : ~Awaits(l)
    BY <1>2, LoopOver
<1>5. MainOK'
    BY <1>1, <1>2, <1>3 DEF MainInv, MainOK, LogOK
<1> USE <1>1, <1>2, <1>3, <1>4 DEF MainInv
<1>6. CountInv'
    BY DEF CountInv, Announced, Judged, Round
<1>7. NodesInv' /\ ErrorsInv'
    BY DEF NodesInv, ErrorsInv, ErrorsHeard, LogErrors
<1>8. StatInv' /\ PendingInv' /\ BudgetInv'
    BY DEF StatInv, PendingInv, BudgetInv
<1>9. DeviceInv' /\ ExitInv'
    BY DEF DeviceInv, ExitInv
<1> QED BY <1>5, <1>6, <1>7, <1>8, <1>9

(* ... or, in a dry run, it is the last one or not. *)
LEMMA DryNextStep == ASSUME IInv, DryNext PROVE MainInv'
<1> USE DEF Starting, Exits, Running
<1>1. MainInv
    BY Parts
<1>2. /\ main = "generated" /\ rest = <<>> /\ DryRun
      /\ queries_generated' = queries_generated + 1
      /\ main' = IF options.bad_budget THEN "exit1"
                 ELSE IF queries_generated + 1 >= MaxQueries THEN "exit0" ELSE "gen"
      /\ ~pending'
      /\ UNCHANGED <<options, rest, cerr, log, logdb, query, finished, life, step>>
    BY DEF DryNext, DryBudgetSpent, Imp!Unjudged, dutVars
<1>3. /\ OptionsOK' /\ RestOK' /\ CerrOK'
      /\ CerrErrors' = CerrErrors
      /\ LogTo' <=> LogTo
      /\ Verbose' <=> Verbose
      /\ DryRun' <=> DryRun
      /\ \A l : Awaits(l)' <=> Awaits(l)
    BY <1>1, <1>2, Kept DEF MainInv, MainOK
<1>4. \A l : ~Awaits(l)
    BY <1>2, LoopOver
<1>5. /\ queries_generated \in Nat
      /\ queries_generated < MaxQueries \/ queries_generated = 0
    BY <1>1, <1>2, BudgetAssumption DEF MainInv, MainOK, BudgetInv
<1>6. MainOK'
    BY <1>1, <1>2, <1>3, <1>5, BudgetAssumption DEF MainInv, MainOK, LogOK
<1> USE <1>1, <1>2, <1>3, <1>4, <1>5 DEF MainInv
<1>7. CountInv'
    BY DEF CountInv, Announced, Judged, Round
<1>8. NodesInv' /\ ErrorsInv'
    BY DEF NodesInv, ErrorsInv, ErrorsHeard, LogErrors
<1>9. StatInv' /\ PendingInv'
    BY DEF StatInv, PendingInv
<1>10. BudgetInv' /\ DeviceInv'
    BY BudgetAssumption DEF BudgetInv, DeviceInv
<1>11. ExitInv'
    <2>1. ReportConsistent'
        BY DEF ReportConsistent
    <2>2. ServerNeverEndsRun'
        BY DEF ServerNeverEndsRun, BudgetInv
    <2>3. ASSUME main' = "exit0", Verbose
          PROVE  cerr.queries = IF MaxQueries = 0 THEN 1 ELSE MaxQueries
        <3>1. cerr.queries = queries_generated + 1
            BY <2>3 DEF CountInv, Announced, Round
        <3>2. queries_generated + 1 >= MaxQueries
            BY <2>3
        <3> QED BY <3>1, <3>2, BudgetAssumption
    <2>4. ExactBudget'
        BY <2>3 DEF ExactBudget
    <2> QED BY <2>1, <2>2, <2>4 DEF ExitInv
<1> QED BY <1>6, <1>7, <1>8, <1>9, <1>10, <1>11

(* test() is over: its result is to be told to every logger. *)
LEMMA TestReturnedStep == ASSUME IInv, TestReturned PROVE MainInv'
<1> USE DEF Starting, Exits, Running
<1>1. MainInv
    BY Parts
<1>2. /\ main = "test" /\ Dut!Idle /\ main' \in {"executed", "error"} /\ rest' = Loggers
      /\ UNCHANGED <<options, queries_generated, cerr, log, logdb>>
      /\ UNCHANGED <<query, pending, finished, life, step>>
    BY DEF TestReturned, AfterTest, dutVars, impVars
<1>3. /\ RestOK' /\ Awaits("impedance")'
      /\ Awaits("pqxx")' <=> LogTo
      /\ Awaits("cerr")' <=> Verbose
    BY <1>2, LoopBegins
<1>4. /\ CerrErrors' = CerrErrors
      /\ LogTo' <=> LogTo
      /\ Verbose' <=> Verbose
      /\ DryRun' <=> DryRun
    BY <1>2 DEF CerrErrors, LogTo, Verbose, DryRun
<1>5. MainOK'
    BY <1>1, <1>2, <1>3 DEF MainInv, MainOK, OptionsOK, CerrOK, LogOK
<1> USE <1>1, <1>2, <1>3, <1>4 DEF MainInv
<1>6. CountInv'
    BY DEF CountInv, Announced, Judged, Round
<1>7. NodesInv' /\ ErrorsInv'
    BY DEF NodesInv, ErrorsInv, ErrorsHeard, LogErrors
<1>8. StatInv' /\ PendingInv' /\ BudgetInv'
    BY DEF StatInv, PendingInv, BudgetInv
<1>9. DeviceInv' /\ ExitInv'
    BY DEF DeviceInv, Dut!Idle, Dut!InTest, ExitInv
<1> QED BY <1>5, <1>6, <1>7, <1>8, <1>9

LEMMA CerrHears ==
  ASSUME CerrOK, Head(rest) = "cerr", TellExecuted \/ TellError
  PROVE  /\ CerrOK' /\ cerr'.queries = cerr.queries /\ cerr'.nodes = cerr.nodes
         /\ \A n \in Nat : cerr.dots + CerrErrors = n - 1 => cerr'.dots + CerrErrors' = n
         /\ main = "executed" => CerrErrors' = CerrErrors
         /\ main = "error" => CerrErrors' = CerrErrors + 1
<1>1. CerrErrors \in Nat /\ cerr.dots \in Nat
    BY Errors DEF CerrOK
<1>2. CASE TellExecuted
    <2>1. cerr' = [cerr EXCEPT !.dots = @ + 1] /\ main = "executed"
        BY <1>2 DEF TellExecuted
    <2> QED BY <1>1, <2>1, DotOnce
<1>3. CASE TellError
    <2>1. cerr' = ErrorCounted /\ main = "error"
        BY <1>3 DEF TellError
    <2> QED BY <1>1, <2>1, ErrorOnce
<1> QED BY <1>2, <1>3

(* The results: the feedback judges, cerr_logger prints a dot or a symbol,  *)
(* pqxx_logger sends a row to the error table.                               *)
LEMMA TellResultStep == ASSUME IInv, TellExecuted \/ TellError PROVE MainInv'
<1> USE DEF Starting, Exits, Running
<1>1. MainInv
    BY Parts
<1>2. /\ main \in {"executed", "error"} /\ rest # <<>> /\ rest' = Tail(rest)
      /\ UNCHANGED <<options, queries_generated, logdb, life, step>> /\ main' = main
    BY DEF TellExecuted, TellError, RestAfterError, dutVars
<1>3. /\ LogTo' <=> LogTo
      /\ Verbose' <=> Verbose
      /\ DryRun' <=> DryRun
      /\ OptionsOK'
    BY <1>1, <1>2 DEF LogTo, Verbose, DryRun, OptionsOK, MainInv, MainOK
<1>4. queries_generated \in Nat /\ ~DryRun
    BY <1>1, <1>2, BudgetAssumption DEF MainInv, MainOK, BudgetInv
<1> USE DEF CallsFeedback, CallsPqxx, CallsCerr
<1>5. RestOK' /\ (CallsFeedback \/ CallsPqxx \/ CallsCerr)
    BY <1>1, <1>2, LoopCalls DEF MainInv, MainOK
<1>6. CerrErrors \in Nat /\ cerr.dots \in Nat
    BY <1>1, Errors DEF MainInv, MainOK, CerrOK
<1> USE <1>1, <1>2, <1>3, <1>4, <1>6 DEF MainInv
<1>7. CASE CallsFeedback
    <2>1. /\ UNCHANGED <<cerr, log>> /\ ~pending'
          /\ finished' = finished + 1
        BY <1>7 DEF TellExecuted, TellError, Imp!FeedExecuted, Imp!FeedError
    <2>2. CerrErrors' = CerrErrors
        BY <2>1 DEF CerrErrors
    <2>3. MainOK'
        BY <1>5, <2>1 DEF MainOK, CerrOK, LogOK
    <2> USE <2>1, <2>2, <1>7
    <2>4. CountInv'
        BY DEF CountInv, Announced, Judged, Round
    <2>5. NodesInv' /\ ErrorsInv'
        BY DEF NodesInv, ErrorsInv, ErrorsHeard, LogErrors
    <2>6. StatInv' /\ PendingInv' /\ BudgetInv'
        BY DEF StatInv, PendingInv, BudgetInv
    <2>7. DeviceInv' /\ ExitInv'
        BY DEF DeviceInv, Dut!Idle, Dut!InTest, ExitInv
    <2> QED BY <2>3, <2>4, <2>5, <2>6, <2>7
<1>8. CASE CallsPqxx
    <2>1. cerr' = cerr /\ finished' = finished /\ pending' = pending
        BY <1>8 DEF TellExecuted, TellError, impVars
    <2>2. /\ LogOK' /\ log'.queries = log.queries /\ log'.nodes = log.nodes
          /\ log'.stat = log.stat
          /\ LogErrors' = IF main = "error" THEN LogErrors + 1 ELSE LogErrors
        <3>1. CASE TellExecuted
            BY <1>8, <3>1 DEF TellExecuted, LogErrors, LogOK, MainOK
        <3>2. CASE TellError
            BY <1>8, <3>2, ErrorOnceLogged DEF TellError, MainOK
        <3> QED BY <3>1, <3>2
    <2>3. CerrErrors' = CerrErrors /\ CerrOK'
        BY <2>1 DEF CerrErrors, CerrOK, MainOK
    <2>4. MainOK'
        BY <1>5, <2>1, <2>2, <2>3 DEF MainOK
    <2> USE <2>1, <2>2, <2>3, <1>8
    <2>5. CountInv'
        BY DEF CountInv, Announced, Judged, Round
    <2>6. NodesInv' /\ ErrorsInv'
        BY DEF NodesInv, ErrorsInv, ErrorsHeard, LogErrors
    <2>7. StatInv' /\ PendingInv' /\ BudgetInv'
        BY DEF StatInv, PendingInv, BudgetInv
    <2>8. DeviceInv' /\ ExitInv'
        BY DEF DeviceInv, Dut!Idle, Dut!InTest, ExitInv
    <2> QED BY <2>4, <2>5, <2>6, <2>7, <2>8
<1>9. CASE CallsCerr
    <2>1. log' = log /\ finished' = finished /\ pending' = pending
        BY <1>9 DEF TellExecuted, TellError, impVars
    <2>2. /\ CerrOK' /\ cerr'.queries = cerr.queries /\ cerr'.nodes = cerr.nodes
          /\ \A n \in Nat : cerr.dots + CerrErrors = n - 1 => cerr'.dots + CerrErrors' = n
          /\ main = "executed" => CerrErrors' = CerrErrors
          /\ main = "error" => CerrErrors' = CerrErrors + 1
        BY <1>9, CerrHears DEF MainOK
    <2>3. MainOK'
        BY <1>5, <2>1, <2>2 DEF MainOK, LogOK
    <2> USE <2>1, <2>2, <1>9
    <2>4. CountInv'
        <3>1. cerr.dots + CerrErrors = queries_generated - 1
            BY DEF CountInv, Judged
        <3>2. cerr'.dots + CerrErrors' = queries_generated
            BY <1>4, <2>2, <3>1, Zenon
        <3> QED BY <3>2 DEF CountInv, Announced, Judged, Round
    <2>5. NodesInv' /\ ErrorsInv'
        BY DEF NodesInv, ErrorsInv, ErrorsHeard, LogErrors
    <2>6. StatInv' /\ PendingInv' /\ BudgetInv'
        BY DEF StatInv, PendingInv, BudgetInv
    <2>7. DeviceInv' /\ ExitInv'
        BY DEF DeviceInv, Dut!Idle, Dut!InTest, ExitInv
    <2> QED BY <2>3, <2>4, <2>5, <2>6, <2>7
<1> QED BY <1>5, <1>7, <1>8, <1>9

-----------------------------------------------------------------------------
(* The others: the device, the server and the logging database. *)

LEMMA MainKept ==
  ASSUME IInv, UNCHANGED <<options, main, rest, queries_generated, cerr, log>>,
         UNCHANGED <<query, pending, finished>>, logdb' \in {logdb, "broken"}
  PROVE  /\ MainOK' /\ CountInv' /\ NodesInv' /\ ErrorsInv' /\ StatInv'
         /\ PendingInv' /\ BudgetInv'
<1>1. MainInv
    BY Parts
<1>2. /\ OptionsOK' /\ RestOK' /\ CerrOK'
      /\ CerrErrors' = CerrErrors
      /\ LogTo' <=> LogTo
      /\ Verbose' <=> Verbose
      /\ DryRun' <=> DryRun
      /\ \A l : Awaits(l)' <=> Awaits(l)
    BY <1>1, Kept DEF MainInv, MainOK
<1>3. Nodes' = Nodes
    BY NodesKept
<1>4. MainOK'
    BY <1>1, <1>2 DEF MainInv, MainOK, LogOK
<1> USE <1>1, <1>2, <1>3 DEF MainInv, Running
<1>5. CountInv'
    BY DEF CountInv, Announced, Judged, Round
<1>6. NodesInv' /\ ErrorsInv'
    BY DEF NodesInv, ErrorsInv, ErrorsHeard, LogErrors
<1>7. StatInv' /\ PendingInv' /\ BudgetInv'
    BY DEF StatInv, PendingInv, BudgetInv
<1> QED BY <1>4, <1>5, <1>6, <1>7

LEMMA InsideStep == ASSUME IInv, DeviceStep PROVE MainInv'
<1>1. MainInv /\ SessionInv
    BY Parts
<1>2. /\ main \in {"connect", "test"} /\ Dut!Client
      /\ UNCHANGED <<options, main, rest, queries_generated, cerr, log, logdb>>
      /\ UNCHANGED <<query, pending, finished>>
    BY DEF DeviceStep, mainVars, impVars
<1>3. /\ MainOK' /\ CountInv' /\ NodesInv' /\ ErrorsInv' /\ StatInv'
      /\ PendingInv' /\ BudgetInv'
    BY <1>2, MainKept
<1>4. step = "none" => step' = "none"
    <2> USE DEF Dut!Throw
    <2>1. CASE Dut!Dial
        BY <2>1 DEF Dut!Dial, Dut!DialOk, Dut!DialFail, Dut!DialSilent
    <2>2. CASE Dut!Send
        BY <2>2 DEF Dut!Send
    <2>3. CASE Dut!ReplyOk
        BY <1>1, <2>3 DEF Dut!ReplyOk, SessionInv, Dut!InCommand, Dut!InTest
    <2>4. CASE (\E s \in Dut!ErrorStates : Dut!ReplyError(s)) \/ Dut!ConnectionLost
        BY <2>4 DEF Dut!ReplyError, Dut!ConnectionLost, Dut!Lost
    <2> QED BY <1>2, <2>1, <2>2, <2>3, <2>4 DEF Dut!Client, Dut!Reply
<1>5. life = "live" => life' = "live"
    <2> USE DEF Dut!Throw
    <2>1. CASE Dut!Dial \/ Dut!Send
        BY <2>1 DEF Dut!Dial, Dut!DialOk, Dut!DialFail, Dut!DialSilent, Dut!Send
    <2>2. CASE Dut!Reply \/ Dut!ConnectionLost
        BY <2>2 DEF Dut!Reply, Dut!ReplyOk, Dut!ReplyError, Dut!ConnectionLost, Dut!Lost
    <2> QED BY <1>2, <2>1, <2>2 DEF Dut!Client
<1>6. DeviceInv' /\ ExitInv'
    BY <1>1, <1>2, <1>4, <1>5 DEF MainInv, DeviceInv, ExitInv, Running, Starting, Exits
<1> QED BY <1>3, <1>6 DEF MainInv

LEMMA OutsideStep == ASSUME IInv, ServerStep \/ LogDbLost PROVE MainInv'
<1>1. MainInv
    BY Parts
<1>2. /\ Running /\ logdb' \in {logdb, "broken"}
      /\ UNCHANGED <<options, main, rest, queries_generated, cerr, log, life, step>>
      /\ UNCHANGED <<query, pending, finished>>
    BY DEF ServerStep, LogDbLost, mainVars, impVars, dutVars, Dut!Environment, Dut!Crash,
        Dut!Restart, Dut!Kill, Dut!client
<1>3. /\ MainOK' /\ CountInv' /\ NodesInv' /\ ErrorsInv' /\ StatInv'
      /\ PendingInv' /\ BudgetInv'
    BY <1>2, MainKept
<1>4. DeviceInv' /\ ExitInv'
    BY <1>1, <1>2 DEF MainInv, DeviceInv, ExitInv, Running, Starting, Exits, Dut!Idle, Dut!InTest,
        DryRun
<1> QED BY <1>3, <1>4 DEF MainInv

LEMMA StutterStep == ASSUME IInv, UNCHANGED vars PROVE MainInv'
<1>1. MainInv
    BY Parts
<1>2. /\ UNCHANGED <<options, main, rest, queries_generated, cerr, log, logdb, life, step>>
      /\ UNCHANGED <<query, pending, finished>>
    BY DEF vars, mainVars, impVars, dutVars
<1>3. /\ MainOK' /\ CountInv' /\ NodesInv' /\ ErrorsInv' /\ StatInv'
      /\ PendingInv' /\ BudgetInv'
    BY <1>2, MainKept
<1>4. DeviceInv'
    BY <1>1, <1>2 DEF MainInv, DeviceInv, Dut!Idle, Dut!InTest, DryRun
<1>5. ExitInv'
    BY <1>1, <1>2 DEF MainInv, ExitInv, Running, ReportConsistent, ExactBudget,
        ServerNeverEndsRun, LogTo, Verbose, DryRun, CerrErrors
<1> QED BY <1>3, <1>4, <1>5 DEF MainInv

-----------------------------------------------------------------------------
(* The invariant of the whole. *)
LEMMA InitIInv == Init => IInv
<1> SUFFICES ASSUME Init PROVE IInv
    OBVIOUS
<1> USE SessionAssumption, FeedbackAssumption, BudgetAssumption, StatAssumption
<1>1. FlagsOK
    BY DEF Init, Dut!Init, FlagsOK
<1>2. ValuesOK
    BY DEF Init, Dut!Init, ValuesOK, Dut!Ended, Dut!Classes, Dut!Exceptions, Dut!SqlStates
<1>3. SessionInv
    BY DEF Init, Dut!Init, SessionInv, Dut!InSetup, Dut!InCommand, Dut!InTest
<1>4. Imp!TypeOK
    <2>1. pending \in BOOLEAN
        BY Zenon DEF Init, Imp!Init
    <2>2. query \in Imp!ASTs
        BY DEF Init, Imp!Init, Imp!NoAST, Imp!ASTs
    <2> QED BY <2>1, <2>2 DEF Init, Imp!Init, Imp!TypeOK
<1>5. /\ cerr.err \in [Symbols -> Nat] /\ CerrErrors = 0
      /\ log.err \in [Fates -> Nat] /\ LogErrors = 0
    BY DEF Init, CerrErrors, Symbols, LogErrors, Fates
<1>6. RestOK
    <2>1. Loggers \in Seq(Names) /\ Len(Loggers) \in Nat
        BY ListOfLoggers
    <2>2. SubSeq(Loggers, Len(Loggers) + 1, Len(Loggers)) = <<>>
        BY <2>1, SubSeqEmpty
    <2>3. Len(Loggers) + 1 \in 1..Len(Loggers) + 1
        BY <2>1
    <2> QED BY <2>2, <2>3 DEF Init, RestOK
<1>7. MainOK
    BY <1>6 DEF Init, MainOK, OptionsOK, CerrOK, LogOK, Starting
<1>8. CountInv /\ NodesInv /\ ErrorsInv /\ StatInv
    BY <1>5 DEF Init, Imp!Init, CountInv, NodesInv, ErrorsInv, StatInv, Announced, Judged, Round,
        ErrorsHeard, Starting
<1>9. PendingInv /\ BudgetInv
    BY DEF Init, Imp!Init, PendingInv, BudgetInv, Starting
<1>10. DeviceInv /\ ExitInv
    BY DEF Init, Dut!Init, DeviceInv, ExitInv, Running, Starting, Exits
<1> QED BY <1>1, <1>2, <1>3, <1>4, <1>7, <1>8, <1>9, <1>10, Parts DEF MainInv

LEMMA NextIInv == IInv /\ [Next]_vars => IInv'
<1> SUFFICES ASSUME IInv, [Next]_vars PROVE IInv'
    OBVIOUS
<1>1. FlagsOK /\ ValuesOK /\ SessionInv /\ Imp!TypeOK /\ PendingInv
    BY Parts DEF MainInv
<1>2. [Dut!Next]_(Dut!vars) /\ [Imp!Next]_(Imp!vars)
    BY <1>1, DeviceCalled, FeedbackCalled
<1>3. FlagsOK' /\ ValuesOK' /\ SessionInv' /\ Imp!TypeOK'
    BY <1>1, <1>2, FlagsStep, SessionStep, FeedbackStep
<1>4. MainInv'
    <2>1. CASE ParseOptions \/ LoadSchema \/ Seed \/ Connected \/ Proceed \/ Wake \/ Interrupt
        BY <2>1, OnlyGoes, GoesOn
    <2>2. CASE OpenLog
        BY <2>2, OpenLogStep
    <2>3. CASE Stop
        BY <2>3, StopStep
    <2>4. CASE \E ast \in Imp!ASTs : Generate(ast)
        BY <2>4, GenerateStep
    <2>5. CASE TellGenerated
        BY <2>5, TellGeneratedStep
    <2>6. CASE CallTest
        BY <2>6, CallTestStep
    <2>7. CASE DryNext
        BY <2>7, DryNextStep
    <2>8. CASE TestReturned
        BY <2>8, TestReturnedStep
    <2>9. CASE TellExecuted \/ TellError
        BY <2>9, TellResultStep
    <2>10. CASE DeviceStep
        BY <2>10, InsideStep
    <2>11. CASE ServerStep \/ LogDbLost
        BY <2>11, OutsideStep
    <2>12. CASE UNCHANGED vars
        BY <2>12, StutterStep
    <2> QED BY <2>1, <2>2, <2>3, <2>4, <2>5, <2>6, <2>7, <2>8, <2>9, <2>10, <2>11, <2>12
         DEF Next, MainStep, Done
<1>5. (FlagsOK /\ ValuesOK /\ SessionInv /\ Imp!TypeOK /\ MainInv)' => IInv'
    BY Parts, PTL
<1> QED BY <1>3, <1>4, <1>5

LEMMA InvariantIInv == Spec => []IInv
  BY InitIInv, NextIInv, PTL DEF Spec

-----------------------------------------------------------------------------
(* All variables keep to their types: main() to its places, its loops to    *)
(* what is left of the list of loggers, the counters to Nat, the session    *)
(* and the feedback to the types of their modules.                           *)
THEOREM TypeCorrect == Spec => []TypeOK
<1>1. IInv => TypeOK
    BY Parts DEF MainInv
<1> QED BY <1>1, InvariantIInv, PTL

(* Whenever SIGINT has cerr_logger print its report, each of its queries    *)
(* but at most one has a result and no result lacks its query.               *)
THEOREM ReportAlwaysConsistent == Spec => []ReportConsistent
  BY ReportNow, InvariantIInv, PTL

(* Whenever main() is about to generate the next query the feedback,        *)
(* cerr_logger and pqxx_logger have counted the same queries, nodes and     *)
(* errors; an error that is no row of the error table was dropped by its     *)
(* trigger or announced by a "log failed".                                   *)
THEOREM LoggersTellTheSame == Spec => []LoggersAgree
<1>1. IInv => LoggersAgree
    <2> SUFFICES ASSUME IInv, main = "gen", Verbose, ~DryRun
                 PROVE  /\ finished = cerr.dots + CerrErrors
                        /\ LogTo => /\ log.queries = cerr.queries /\ log.nodes = cerr.nodes
                                    /\ LogErrors = CerrErrors
        BY DEF LoggersAgree
    <2>1. MainInv /\ Running
        BY Parts DEF Running, Exits
    <2>2. finished = cerr.dots + CerrErrors /\ (LogTo => log.queries = cerr.queries)
        BY <2>1 DEF MainInv, CountInv, Announced, Judged, Round
    <2>3. LogTo => log.nodes = cerr.nodes
        BY <2>1 DEF MainInv, NodesInv
    <2>4. LogTo => LogErrors = CerrErrors
        BY <2>1 DEF MainInv, ErrorsInv, ErrorsHeard
    <2> QED BY <2>2, <2>3, <2>4
<1> QED BY <1>1, InvariantIInv, PTL

(* As long as main() runs, whatever becomes of the logging database, the row *)
(* that pqxx_logger keeps of its statistics is less than StatEvery queries   *)
(* old.                                                                      *)
THEOREM StatRowFresh == Spec => []StatFresh
<1>1. IInv => StatFresh
    <2> SUFFICES ASSUME IInv, LogTo, main \notin Starting \cup Exits
                 PROVE  log.queries - log.stat < StatEvery
        BY DEF StatFresh
    <2>1. log.queries \in Nat /\ log.stat \in Nat \cup {-1} /\ StatEvery \in Nat \ {0}
        BY Parts, StatAssumption DEF MainInv, MainOK, LogOK
    <2>2. log.queries - log.stat <= (log.queries + 1) % StatEvery
        BY Parts DEF MainInv, StatInv
    <2>3. (log.queries + 1) % StatEvery \in 0..(StatEvery - 1)
        BY <2>1
    <2> QED BY <2>1, <2>2, <2>3
<1> QED BY <1>1, InvariantIInv, PTL

(* A run that ends of itself has generated --max-queries queries, each of   *)
(* them with a result unless it is a dry run.                                *)
THEOREM BudgetExact == Spec => []ExactBudget
<1>1. IInv => ExactBudget
    BY Parts DEF MainInv, ExitInv, ExactBudget, Running, Exits
<1> QED BY <1>1, InvariantIInv, PTL

(* Once the first connection stood, main() gives up only over a budget it   *)
(* cannot read, at the first query, or over a stat row that was due.          *)
THEOREM ServerCannotEndRun == Spec => []ServerNeverEndsRun
<1>1. IInv => ServerNeverEndsRun
    BY Parts DEF MainInv, ExitInv, ServerNeverEndsRun, Running, Exits
<1> QED BY <1>1, InvariantIInv, PTL

(* Every behaviour of main() calls the feedback in the order that the       *)
(* module Impedance assumes: its theorems hold of the whole program.         *)
THEOREM FeedbackCalledInOrder == Spec => FeedbackProtocol
<1>1. Init => Imp!Init
    BY DEF Init
<1>2. IInv /\ [Next]_vars => [Imp!Next]_(Imp!vars)
    BY FeedbackCalled, Parts DEF MainInv
<1> QED BY <1>1, <1>2, InvariantIInv, PTL DEF Spec, FeedbackProtocol, Imp!Spec

(* Every behaviour of main() uses the device under test as the module       *)
(* DutSession describes: its safety theorems hold of the whole program.      *)
THEOREM DeviceUsedAsSpecified == Spec => Dut!Spec
<1>1. Init => Dut!Init
    BY DEF Init
<1> QED BY <1>1, DeviceCalled, PTL DEF Spec, Dut!Spec

(* The device has finished with the last query, whatever that ended with,   *)
(* when main() generates, announces or recovers: the test() that main()     *)
(* calls next never finds another one under way.                             *)
THEOREM DeviceIsIdle ==
  Spec => [](main \in {"gen", "generated", "executed", "error", "sleep"} /\ ~DryRun => Dut!Idle)
<1>1. IInv => (main \in {"gen", "generated", "executed", "error", "sleep"} /\ ~DryRun => Dut!Idle)
    BY Parts DEF MainInv, DeviceInv
<1> QED BY <1>1, InvariantIInv, PTL
=============================================================================
