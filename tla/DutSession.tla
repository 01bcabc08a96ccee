----------------------------- MODULE DutSession -----------------------------
(***************************************************************************)
(* dut_libpq (src/postgres.cc): one libpq connection to the server under   *)
(* test.  test() runs ROLLBACK, BEGIN, the generated statement, ROLLBACK;  *)
(* command() opens the session on demand, and connect() issues three SETs  *)
(* through command() itself.  Every command is a send and a reply, so that *)
(* the server (external) may crash, or lose the backend, between the two.  *)
(***************************************************************************)
EXTENDS Naturals, FiniteSets

CONSTANTS
    MaxFaults,       \* bound on the faults the environment injects
    ServerMayReject  \* the server may answer ERROR to a SET, BEGIN or ROLLBACK

ASSUME MaxFaultsAssumption == MaxFaults \in Nat
ASSUME ServerMayRejectAssumption == ServerMayReject \in BOOLEAN

VARIABLES
    conn,     \* the PGconn: "null", or its PQstatus "ok" / "bad"
    step,     \* the command of test() under way, "none" between tests
    setup,    \* the SET of connect() under way
    waiting,  \* PQexec has sent the command
    life,     \* the dut_libpq object: constructor running, usable, never built
    outcome,  \* what the last test() or the constructor ended with
    handed,   \* how often the statement of this test was sent
    up,       \* the server accepts connections
    backend,  \* the server process of conn: its transaction state, or "gone"
    params,   \* the SETs of connect() in force in that backend
    dirty,    \* uncommitted effects of a generated statement
    durable,  \* a generated statement had effects outside a transaction block
    faults    \* faults injected so far

client == <<conn, step, setup, waiting, life, outcome, handed>>
server == <<up, backend, params, dirty, durable, faults>>
vars == <<client, server>>

-----------------------------------------------------------------------------
Commands == {"rollback", "begin", "stmt", "cleanup"}
Settings == {"timeout", "messages", "appname"}

(* Mutant: test() forgets its BEGIN. *)
AfterCommandNoBegin ==
    [rollback |-> "stmt", begin |-> "stmt", stmt |-> "cleanup", cleanup |-> "none"]

AfterCommand ==
    [rollback |-> "begin", begin |-> "stmt", stmt |-> "cleanup", cleanup |-> "none"]
AfterSetting ==
    [timeout |-> "messages", messages |-> "appname", appname |-> "none"]

(* SQLSTATEs the model tells apart: 42601 is PostgreSQL's syntax_error,    *)
(* 57014 its query_canceled (statement_timeout), "other" any other error   *)
(* of a statement; 08001 and 08000 are the client's own, 57P01 is what a   *)
(* terminated backend may still have said.                                 *)
ErrorStates == {"42601", "57014", "other"}
LostStates == {"08000", "57P01"}
SqlStates == ErrorStates \cup LostStates \cup {"none", "08001"}

(* dut.hh: dut::failure and what derives from it; no code throws a timeout. *)
Exceptions == {"failure", "broken", "timeout", "syntax"}
Classes == Exceptions \cup {"none", "ok"}

(* command(): the exception class of an error on a live connection. *)
ClassOf(sqlstate) == IF sqlstate = "42601" THEN "syntax" ELSE "failure"

Ended(class, sqlstate) == [class |-> class, sqlstate |-> sqlstate]

InTest == step # "none"
InSetup == setup # "none"
Idle == life = "live" /\ ~InTest
Alive == backend # "gone"

(* command() calls connect() when there is no PGconn; so does the constructor. *)
AtConnect == conn = "null" /\ (life = "ctor" \/ InTest)
(* A PQexec is due or under way. *)
InCommand == conn # "null" /\ (InSetup \/ InTest)
AtStatement == InCommand /\ ~InSetup /\ step = "stmt"

(* A throw out of command() or connect() leaves test(), or the constructor. *)
Throw(class, sqlstate) ==
    /\ outcome' = Ended(class, sqlstate)
    /\ step' = "none"
    /\ setup' = "none"
    /\ waiting' = FALSE
    /\ life' = IF life = "ctor" THEN "dead" ELSE life
    /\ UNCHANGED handed

Fault == faults < MaxFaults /\ faults' = faults + 1

-----------------------------------------------------------------------------
Init ==
    /\ conn = "null" /\ step = "none" /\ setup = "none" /\ waiting = FALSE
    /\ life = "ctor" /\ outcome = Ended("none", "none") /\ handed = 0
    /\ up = TRUE /\ backend = "gone" /\ params = {}
    /\ dirty = FALSE /\ durable = FALSE /\ faults = 0

(* Mutant: test() leaves out the ROLLBACK that precedes BEGIN. *)
FirstCommandBegin == "begin"

FirstCommand == "rollback"

(* The main loop calls test(). *)
Test ==
    /\ Idle
    /\ step' = FirstCommand
    /\ handed' = 0
    /\ outcome' = Ended("none", "none")
    /\ UNCHANGED <<conn, setup, waiting, life, server>>

(* Mutant: connect() does not set statement_timeout. *)
FirstSettingForgotten == "messages"

FirstSetting == "timeout"

(* connect(): a fresh session, whose first SET comes next. *)
DialOk ==
    /\ AtConnect
    /\ up
    /\ conn' = "ok" /\ setup' = FirstSetting
    /\ backend' = "idle" /\ params' = {} /\ dirty' = FALSE
    /\ UNCHANGED <<step, waiting, life, outcome, handed, up, durable, faults>>

(* connect(): PQconnectdb fails with a message.  The failed PGconn stays in *)
(* conn: the next command() does not reconnect but runs PQexec on it.       *)
DialFail ==
    /\ AtConnect
    /\ IF up THEN Fault ELSE UNCHANGED faults
    /\ conn' = "bad"
    /\ Throw("broken", "08001")
    /\ UNCHANGED <<up, backend, params, dirty, durable>>

(* connect(): it fails without a message, and connect() carries on. *)
DialSilent ==
    /\ AtConnect
    /\ IF up THEN Fault ELSE UNCHANGED faults
    /\ conn' = "bad" /\ setup' = FirstSetting
    /\ UNCHANGED <<step, waiting, life, outcome, handed, up, backend, params, dirty, durable>>

(* command(): PQexec sends the text to a live backend. *)
Send ==
    /\ InCommand /\ ~waiting
    /\ conn = "ok" /\ Alive
    /\ waiting' = TRUE
    /\ handed' = IF AtStatement THEN handed + 1 ELSE handed
    /\ UNCHANGED <<conn, step, setup, life, outcome, server>>

(* The server carries out the command. *)
Execute ==
    \/ /\ InSetup
       /\ params' = params \cup {setup}
       /\ UNCHANGED <<backend, dirty, durable>>
    \/ /\ ~InSetup /\ step \in {"rollback", "cleanup"}
       /\ backend' = "idle" /\ dirty' = FALSE
       /\ UNCHANGED <<params, durable>>
    \/ /\ ~InSetup /\ step = "begin"
       /\ backend # "failed"   \* an aborted block accepts a ROLLBACK only
       /\ backend' = "block"   \* inside a block BEGIN only warns
       /\ UNCHANGED <<params, dirty, durable>>
    \/ /\ AtStatement /\ backend # "failed"
       /\ \E effects \in BOOLEAN :
             IF backend = "block" THEN /\ dirty' = (dirty \/ effects)
                                       /\ UNCHANGED durable
                                  ELSE /\ durable' = (durable \/ effects)
                                       /\ UNCHANGED dirty
       /\ UNCHANGED <<backend, params>>

(* command() returns: on to the next SET or command; after the last one    *)
(* test() returns, after the last SET of the constructor the object lives. *)
ReplyOk ==
    /\ waiting /\ Alive
    /\ Execute
    /\ waiting' = FALSE
    /\ IF InSetup
       THEN /\ setup' = AfterSetting[setup]
            /\ life' = IF setup = "appname" THEN "live" ELSE life
            /\ UNCHANGED <<step, outcome>>
       ELSE /\ step' = AfterCommand[step]
            /\ outcome' = IF step = "cleanup" THEN Ended("ok", "none") ELSE outcome
            /\ UNCHANGED <<setup, life>>
    /\ UNCHANGED <<conn, handed, up, faults>>

(* Mutant: a test whose statement failed starts over instead of throwing. *)
ReplyErrorRetries(sqlstate) ==
    /\ waiting /\ Alive /\ AtStatement
    /\ backend' = "failed" /\ dirty' = FALSE
    /\ step' = "rollback" /\ waiting' = FALSE
    /\ UNCHANGED <<conn, setup, life, outcome, handed, up, params, durable, faults>>

(* command(): an ERROR on a connection that is still good, so the session  *)
(* is kept.  An ERROR aborts the transaction block.  A generated statement *)
(* may fail at will; a command of sqlsmith's own only where the server may *)
(* reject it, or in an aborted block.                                      *)
ReplyError(sqlstate) ==
    /\ waiting /\ Alive
    /\ \/ AtStatement /\ UNCHANGED faults
       \/ sqlstate = "other" /\ ~InSetup /\ step = "begin" /\ backend = "failed" /\ UNCHANGED faults
       \/ ServerMayReject /\ sqlstate # "42601" /\ ~AtStatement /\ Fault
    /\ backend' = IF backend = "idle" THEN "idle" ELSE "failed"
    /\ dirty' = FALSE
    /\ Throw(ClassOf(sqlstate), sqlstate)
    /\ UNCHANGED <<conn, up, params, durable>>

(* Mutant: conn is not reset after PQfinish; the dead PGconn stays. *)
ConnAfterLossKept == conn

ConnAfterLoss == "null"

(* Mutant: a lost connection is noticed only by a status that is already bad. *)
LossNoticedLate == conn = "bad"

(* PQexec finds out what became of the connection. *)
LossNoticed == conn = "bad" \/ ~Alive

(* Mutant: instead of throwing, test() starts over on a new connection. *)
LostRetries(sqlstate) ==
    /\ InCommand
    /\ LossNoticed
    /\ sqlstate = "08000"
    /\ conn' = "null" /\ backend' = "gone" /\ dirty' = FALSE
    /\ setup' = "none" /\ waiting' = FALSE
    /\ step' = IF InTest THEN "rollback" ELSE step
    /\ UNCHANGED <<life, outcome, handed, up, params, durable, faults>>

(* command(): the connection turns out to be lost, before or after the     *)
(* send: PQfinish, conn = 0, throw broken.                                 *)
Lost(sqlstate) ==
    /\ InCommand
    /\ LossNoticed
    /\ conn' = ConnAfterLoss /\ backend' = "gone" /\ dirty' = FALSE
    /\ Throw("broken", sqlstate)
    /\ UNCHANGED <<up, params, durable, faults>>

-----------------------------------------------------------------------------
(* The environment: the server crashes and comes back, or one backend is   *)
(* terminated (by hand, or by the generated statement itself).             *)
Crash ==
    /\ up /\ Fault
    /\ up' = FALSE /\ backend' = "gone" /\ dirty' = FALSE
    /\ UNCHANGED <<client, params, durable>>

Restart ==
    /\ ~up
    /\ up' = TRUE
    /\ UNCHANGED <<client, backend, params, dirty, durable, faults>>

Kill ==
    /\ Alive /\ Fault
    /\ backend' = "gone" /\ dirty' = FALSE
    /\ UNCHANGED <<client, up, params, durable>>

Dial == DialOk \/ DialFail \/ DialSilent
Reply == ReplyOk \/ \E s \in ErrorStates : ReplyError(s)
ConnectionLost == \E s \in LostStates : Lost(s)
Client == Dial \/ Send \/ Reply \/ ConnectionLost
Environment == Crash \/ Restart \/ Kill

(* The constructor threw: there is nothing left to do. *)
Done == life = "dead" /\ UNCHANGED vars

Next == Test \/ Client \/ Environment \/ Done

Spec == Init /\ [][Next]_vars

(* A control command is answered at once.  A generated statement is only   *)
(* bounded by the statement_timeout of its session: without it, a query    *)
(* may run for ever.                                                       *)
ReplyInTime == (~AtStatement \/ "timeout" \in params) /\ Reply

Fairness ==
    /\ WF_vars(Test) /\ WF_vars(Dial) /\ WF_vars(Send)
    /\ WF_vars(ReplyInTime) /\ WF_vars(ConnectionLost)
    /\ WF_vars(Restart)

FairSpec == Spec /\ Fairness

-----------------------------------------------------------------------------
TypeOK ==
    /\ conn \in {"null", "ok", "bad"}
    /\ step \in Commands \cup {"none"}
    /\ setup \in Settings \cup {"none"}
    /\ waiting \in BOOLEAN
    /\ life \in {"ctor", "live", "dead"}
    /\ outcome \in [class : Classes, sqlstate : SqlStates]
    /\ handed \in {0, 1}
    /\ up \in BOOLEAN
    /\ backend \in {"gone", "idle", "block", "failed"}
    /\ params \in SUBSET Settings
    /\ dirty \in BOOLEAN
    /\ durable \in BOOLEAN
    /\ faults \in 0..MaxFaults

(* Whenever test() is at the generated statement, the backend it will reach *)
(* is inside a transaction block that carries nothing of an earlier test:   *)
(* whatever was lost, rejected or left half done before (postgres.cc, test  *)
(* and command).                                                            *)
FreshBlock == step = "stmt" /\ Alive => backend = "block" /\ ~dirty

(* README, "Execute queries (in rolled-back transactions)": no generated    *)
(* statement ever has an effect outside a block, which FreshBlock implies.   *)
NothingPersists == ~durable

(* The main loop treats dut::broken as "the session is gone" and any other  *)
(* exception as "go on with it"; between tests the connection must agree:   *)
(* after broken there is no usable connection left, after anything else     *)
(* there is one.                                                            *)
ConnMatchesOutcome ==
    Idle => /\ outcome.class = "broken" => conn # "ok"
            /\ outcome.class # "broken" => conn = "ok"

(* A test that ends without losing the connection did put its statement to  *)
(* the server: the leftovers of one failed statement never cost the next    *)
(* one its run.  (Where the server rejects no control command.)             *)
NoStatementSkipped ==
    Idle /\ outcome.class \notin {"none", "broken"} => handed = 1

(* A generated statement runs under the statement_timeout of connect();     *)
(* README, "Query exceeded 1-second timeout".                               *)
StatementTimeoutSet == waiting /\ AtStatement /\ Alive => "timeout" \in params

(* README, "t - Query exceeded 1-second timeout": a cancelled statement is  *)
(* classed as a timeout (dut.hh has the class dut::timeout for it).         *)
CancelIsTimeout == outcome.sqlstate = "57014" => outcome.class = "timeout"

(* Every test() returns or throws, whatever the server does. *)
TestReturns == InTest ~> ~InTest

(* After a lost connection some later statement reaches the server again.   *)
Recovers == (Idle /\ outcome.class = "broken") ~> handed = 1

-----------------------------------------------------------------------------
(* The session implements the contract of a device under test. *)
Phase ==
    CASE life = "ctor" -> "absent"
      [] life = "dead" -> "lost"
      [] life = "live" /\ step = "none" -> "idle"
      [] OTHER -> "testing"

Contract == INSTANCE DutContract
    WITH phase <- Phase, verdict <- outcome.class, persists <- durable

ImplementsContract == Contract!Spec
============================================================================
