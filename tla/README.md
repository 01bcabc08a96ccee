# sqlsmith in TLA+

sqlsmith generates random SQL from the schema of a PostgreSQL server and runs it
there, looking for statements that crash the server. These modules model the
program in `src/`, check the models with TLC on small instances and prove the most
important properties with TLAPS for all values of the constants. Line numbers are
in `PROJECT.json` (`map`), definition by definition.

## Inventory

sqlsmith is one process with one thread; what is concurrent is the world around
it: the server under test, the logging database, other sessions that change the
catalog, and a SIGINT handler.

| Component | State | Operations | What makes it correct |
|---|---|---|---|
| **Device under test** `dut_libpq` (`postgres.cc`) | `conn`, and at the other end the backend: its transaction block, its settings | `connect`, `command`, `test` | a statement always runs in a block of its own and leaves nothing behind; the exception thrown tells whether the session is usable; the session is rebuilt after a loss |
| **Main loop** `main` (`sqlsmith.cc`) | options, `queries_generated`, the position in start-up and in two nested loops, the list of loggers | start, generate, test, tell the loggers, recover, exit | exactly `--max-queries` queries; each gets one verdict; the server under test never ends the run |
| **Loggers** (`log.cc`) | `cerr_logger`: counts by symbol; `pqxx_logger`: instance, stat and error rows | `generated`, `executed`, `error`, `report` | all loggers agree, and an error that is in no table is dropped by its trigger or announced; one that fails does not silence the others |
| **Impedance feedback** (`impedance.cc`) | two maps, production type → count | `executed`, `error`, `matched`, `report` | counts are per query; blacklisting is stable |
| **Schema** (`postgres.cc`, `schema.cc`, `relmodel.hh`) | types, tables, base tables, columns, routines, aggregates, operators, and eight indexes by type | `schema_pqxx`, `generate_indexes`, `consistent` | everything refers to loaded types; an index offers only what conforms |
| **Value expressions** (`expr.cc`) | type constraint, own type, operands | `value_expr::factory`, one constructor per form | an expression has the type its context asked for; calls match their signature |
| **Productions, retries, factories** (`prod.cc`, `grammar.cc`, `expr.cc`) | tree of productions: `retries`, `retry_limit`, `level` | constructors, `retry`, `match`, the factories | an attempt ends; budgets bound it; a window function stands where SQL allows one |
| **Scopes and aliases** (`relmodel.hh`, `grammar.cc`) | per scope `tables` and `refs`; `stmt_seq`, shared by all scopes of a statement | the copy of a scope, `new_stmt`, `stmt_uid`, what `from_clause`, `expr_join_cond` and WITH add | an expression can name exactly what SQL lets it see; no alias shadows another |
| **Set operations, WITH, GROUP BY** (`grammar.cc`) | columns of both sides, list of WITH queries, grouping columns | `set_operation`, `common_table_expression`, `group_by` | both sides have the same columns; GROUP BY names only what is in scope |
| Data-modifying grammar (`grammar.cc`) | target table, value lists | insert, update, delete, upsert, merge, select for update | not reachable: `statement_factory` builds none of them |
| AST dump, random numbers, `dut_pqxx`, build files | – | – | output only, nondeterminism, not instantiated |

**How they interact.** `main` builds the schema over a connection of its own,
then the device, then loops. Generation reads the schema and asks the feedback
(`impedance::matched`, from `prod::match` and from the factories). The finished
AST goes to every logger (`generated`), its text to `dut->test`; how that returns
or throws decides which of `executed` and `error` the loggers get; for the feedback,
which is the first logger, that call is where its counts change. `dut::broken`
leaves the inner loop and is answered in the outer one with a pause. There are no
messages and no locks; the shared state is the process's own.

**What is hard.** Crashes of the server, or of one backend, between any two
commands and between a send and its reply; a `conn` that is non-null and dead;
connect() calling command() calling connect(); errors that leave an aborted block;
a session set up halfway; the `try` that every logger has in one loop and shares in
another; SIGINT in the middle of a round; catalog queries with a snapshot each
while others run DDL; retries nested in retries with exceptions that pass some
levels and stop at others; `goto retry` in constructors that have chosen a
routine, its type and half of its arguments; scopes that are copied while FROM clauses
still grow, and subqueries that fail after their aliases were counted. The list, each at its line and with the
properties that are about it, is `hazards` in `PROJECT.json`.

## Modules and code

    DutContract          what a device under test promises
      ^ refines
    DutSession           dut_libpq and its server          <- DutSessionProofs, MCDutSession
      ^ INSTANCE
    FuzzLoop             main() and the loggers             <- FuzzLoopProofs, MCFuzzLoop
      v INSTANCE, and refines
    Impedance            the feedback                       <- ImpedanceProofs, MCImpedance

    PgTypes              pg_type::consistent
      ^ EXTENDS      ^ EXTENDS
    SchemaLoad       ExprTypes                              <- SchemaLoadProofs, MCSchemaLoad; ExprTypesProofs, MCExprTypes
    Production           constructors, retries, exceptions  <- ProductionProofs
    QueryScope           what they make visible, columns, grouping   <- QueryScopeProofs, MCQueryScope

`SequenceLemmas` holds what `ProductionProofs`, `QueryScopeProofs` and `FuzzLoopProofs` need of sequences, natural numbers
and sums over finite sets.

### DutSession

`conn` is the `PGconn*`, with `PQstatus` folded in (`"ok"`, `"bad"`); `step` and
`setup` are the positions in `test` and `connect`; `waiting` is the time between the
send and the reply of a `PQexec`. `Dial*` are the outcomes of `PQconnectdb`, among them
the one where it fails without a message and `connect` carries on; `Send`, `ReplyOk`,
`ReplyError` and `Lost` are `command`. `Throw` unwinds through `connect` and `test` to
the caller. External are `up`, `backend` (idle, block, failed block, gone), `params`,
`dirty`, `durable`, the actions `Crash`, `Restart`, `Kill`, and `Execute`, which is
PostgreSQL's transaction state machine as far as these five commands reach it. Of the
SQLSTATEs the model keeps those that the code or a property tells apart; `Exceptions` are the four classes `dut.hh` declares, of which `ClassOf`
never yields `timeout` (finding 2). `DutContract` is `dut_base`: a test hands its statement over
at most once, and a verdict about SQL needs a statement that was sent.

### Impedance

The maps are functions on production types, an AST is the bag of the types of its
nodes, the visitor is `Found`, its destructor `Count`. `Gated` are the types
whose constructor calls `match()` (and `lateral_subquery`, for which the factory
asks). `NewQuery`, `FeedExecuted` and `FeedError` are the calls as the code
makes them, unguarded; `Generate`, `Executed` and `Error` add the order of calls that `main` is
expected to keep, and `FuzzLoop` uses the unguarded ones, so that `FeedbackProtocol` is something
`main` can break. The error rate is compared exactly: with integers below 2^53 the comparison of the double with
0.99 gives the same result in the range of counts a run can reach.

### FuzzLoop

Start-up comes first: `ParseOptions`, `LoadSchema` (as one step with the outcomes `SchemaLoad` shows: loaded,
an exception, an assert), `Seed`, `OpenLog`, the first connection; each of them can end the program (a `--max-queries` that is no number does so only after the first query is counted, `BudgetUnreadable`), and SIGINT is handled
only from the end of start-up on. `main` is the program counter of `main()`, `rest` the loggers a loop over them still
has to call. Device and feedback are the modules above, by INSTANCE over the same variables. One logger call is one
step, so a SIGINT (`Interrupt`, the report and exit of `cerr_log_handler`) and a server
or logging-database failure can fall between any two. `logdb` is the connection of
`pqxx_logger`, which nothing reopens. On a good connection, too, the database can refuse a row (`OpenLog`, `StatRow`, `ErrorLogged`), and the trigger
`discard_known` of `tools/log.sql` can drop an error without a word: `log.err` counts what became of each (`Fates`), so that `LoggersAgree`
says that no error is lost in silence but by that trigger.

### PgTypes, SchemaLoad

One action per catalog query of `schema_pqxx`, one per row where the code has a
query per row (columns of a table, parameters of a routine), `CloseConnection`, then
`generate_indexes` type by type and the list of base tables. Parameter lists are sequences in `pg_proc`'s order; `operands` are the types of an operator's operands, which nothing asserts, so that they may be null. `Lookup` is `oid2type[oid]`: a map's `operator[]`, null
for an unknown oid. `"aborted"` is a failed assert, `"crashed"` the null dereference while
indexing. The catalog and the DDL on it are external; the server refuses to drop
what is referred to, and an oid never returns. A null takes two DDL statements, a new type and then an object that uses it, both after `pg_type` was read (`OneDDLHarmless`).

### ExprTypes

One `value_expr` under construction. An operand built by a factory is any type that
`Offers` allows for its constraint; `Honoured` is the induction step that makes this
assumption good at the next level. `Retry` of the factory starts again with any form; `PickProc`
is the loop of `funcall` around `goto retry`; `FixUp` is "types are consistent but
not identical" of comparison, coalesce and case. An operator's operand type may be null, as `SchemaLoad` has it: then the factory may make an operand of
any type, and `OperandsAgree` still holds.

### Production

`stack` is the C++ call stack of constructors, `mode` says whether an exception unwinds it.
`Parts` is the grammar as the constructors call it: what may be built next, and whether
a `try` stands around it. Every `prod` has its `retries` and its limit;
`RetryOrThrow` is `prod::retry`. What is chosen beyond the kind (names, columns, dice) is
nondeterministic. coalesce lowers its limit when it has both operands (`Gained`): `LoweredBudget` is what that promises of the failures
it paid before, which the common bound of `RetryBudget` cannot tell.

### QueryScope

`stack` holds the queries, joined tables, set operations and WITHs under construction, `uid` is
`stmt_seq`. A query frame has its scope (`refs`; `withs`, what `tables` has beyond the schema's), the aliases of its FROM
clause (`own`), its select items and what `group_by` makes of them. `Query` is the copy of the scope (`Copied`),
`Received` what a finished table reference adds to the query or joined table it is part of, `Uid` and `Counted` are `stmt_uid`. A
select item is its type, whether it is a window function, the keys of the window functions in it, and those in its
subqueries, which is what `group_by` looks at; `SeenIn` is what a visitor finds in a finished query. `Fail` throws away the
innermost construct and everything up to the first one whose maker catches; how often that may happen is the business
of `Production`. Against this stand `Outside` and `Visible`: the visibility rules of SQL, written over the tree of
constructs without looking at any scope. The schema's own tables, among them those that `BeginMain` pushes once more at each retry, are visible everywhere
and not represented. What `group_by` ought to collect is written nowhere, and it leaves out columns that share an item with a window function (see
Findings); so the property about grouping is the one about scope, `GroupVisible`.

## Runs

Every number below is a bound named in a module or its cfg.

| Run | Instance | Question and answer |
|---|---|---|
| `dut_safety` | 4 faults, server may reject its control commands | In every order of crashes, kills, refused dials and rejections: a statement meets a fresh block, the exception tells the state of `conn`; `DutContract` is refined. Four faults allow a loss, a failed reconnection, a rejection in the one after, and one more. Proved for any number. |
| `dut_live` | 3 faults, no rejections | Every test ends; a lost session is recovered; no test is spent on leftovers; `statement_timeout` is in force. |
| `dut_half_setup`, `dut_cancel` | 2 and 0 faults | Findings 1, 2. |
| `impedance` | 3 types, 2 of them gated, 4 queries, up to 2 nodes of a type, blacklist after 2 failures above 2/3 | Counts are per query; a gated blacklisted type stays so. The small thresholds let a type pass the limit, and go back below the rate if it could, within four queries. |
| `loop_run` | every combination of `--help`, `--dry-run`, `--log-to`, `--verbose` and a bad `--max-queries`; 3 queries, 3 faults, stat row every 2 queries; the logging database stores, drops or refuses each row, or is lost (1,278,935 states) | All safety of `main` and the loggers; the logger calls keep the protocol that `Impedance` assumes; a run with a budget ends even if the server stays down. Three queries cross the stat boundary twice and give a failure between successes; a server that is down refuses any number of dials at the price of one fault. One production type is enough here: what tells types apart is the business of `impedance`. All but the end of the run is proved for any options, budget and number of faults. |
| `schema_ddl` | 3 types, a table, a view and a catalog table, 5 procs/operators (two of them with a user's type as operand or result), 2 DDL statements (2,152,246 states) | Whatever falls between the queries, the columns, results and parameters of a schema that comes to be are of loaded types, operands are of their declared type or null; it keeps the parameters of what still exists, in their order, and is complete if nothing changed. Two statements are what it takes for an object of a new type, and `OneDDLHarmless` says that one is not enough for a failed assert or a null. Proved for any catalog and number of statements. |
| `schema_assert` | 2 DDL statements | Finding 4. |
| `expr_types` | 6 types (3 pseudo), 7 routines, 2 tables, 4 operators (one with one operand of unknown type, one with both; 2427 states) | Every form, every constraint, every outcome of every operand; limits of 1 retry. Proved for any schema. |
| `prod_budget` | stacks of 4, limits 0 to 2 | Budgets bound the failures a production pays for and are never restored; the limit coalesce lowers counts what it paid before; every attempt ends, in a statement or an exception. Four levels hold a query with joins, predicates, calls, case, coalesce and window functions, set operations and WITH; subqueries in FROM, join conditions and EXISTS need five or six and are left to the proofs. Window functions stand in select lists of queries only, never in one another; one inside another's call would take a stack of six, which only the theorem covers. The budgets and the places of windows are proved for any depth. The coalesce limit is below the common one and that of table_sample above it, as in the code. |
| `query_scope` | 4 constructs nested, 3 aliases, 1 select item (2 columns for sides of set operations), 2 types, 1 retry of a set operation | What an expression can name is exactly what SQL lets it see there; no alias twice in a scope; both sides of a set operation have as many columns. Four levels hold a LATERAL or EXISTS in a subquery in FROM, a joined table in a joined table, a subquery in a join condition of it, a set operation in a set operation and a subquery in the query proper of a WITH; three aliases are what it takes for two FROM items and one in a subquery, or two sides of a join and one more. Proved for any depth and number. |
| `group_by_scope` | the same | Finding 3. |

Deadlock is checked in every run; the modules that can end have a `Done` stutter for
exactly their final states.

**Fairness.** `DutSession`: the client is a thread that runs on, so calling `test`, dialling,
sending and noticing a lost connection are weakly fair. The server's reply is fair for a control
command; for a generated statement only while `statement_timeout` is in force
(`ReplyInTime`): without it a query may run for ever, so `TestReturns` and
`Recovers` depend on `connect` setting it. `Recovers` also needs `WF(Restart)`: a server that
stays down is not recovered. `FuzzLoop` assumes neither a restart nor SIGINT.
`Production` is one thread that never waits: `WF(Next)`. In both, no fairness is asked of
faults or of `ReplyOk` over an error.

## Proofs

| Theorem | Assumes |
|---|---|
| `DutSessionProofs`: `TypeCorrect`, `StatementInFreshBlock`, `NothingEverPersists`, `OutcomeTellsConnection`, `SessionImplementsContract` | `MaxFaults \in Nat` |
| `TimeoutAlwaysSet`, `EveryTestReachesServer` | and `~ServerMayReject`; without it finding 1 refutes the first |
| `ImpedanceProofs`: `TypeCorrect`, `CountsQueries`, `BlacklistIsSticky` | thresholds are natural, the rate below 1 |
| `ExprTypesProofs`: `ConcreteTypesHonoured`, `CallsTyped`, `FixUpsAgree`, `TypeCorrect` | the type of each schema object is a type |
| `FuzzLoopProofs`: `ReportAlwaysConsistent`, `LoggersTellTheSame`, `StatRowFresh`, `BudgetExact`, `ServerCannotEndRun`, `FeedbackCalledInOrder`, `DeviceUsedAsSpecified`, `DeviceIsIdle`, `TypeCorrect` | the set of production types is finite, the bounds are natural numbers, `StatEvery` is not 0 |
| `SchemaLoadProofs`: `SchemaClosed`, `OneStatementHarmless`, `SurvivorsKnown`, `QuietLoadsComplete`, `IndexesRight`, `TypeCorrect` | results and parameters of objects are types, catalog tables and views are tables, `NoType` is no type |
| `ProductionProofs`: `BudgetsBound`, `FailuresNeverForgiven`, `LoweredLimitBinds`, `WindowsPlaced`, `TypeCorrect` | the limits are natural numbers |
| `QueryScopeProofs`: `ScopesSound`, `ScopesComplete`, `AliasesUnique`, `SidesAgree`, `TypeCorrect` | there is a type, and the bounds are natural numbers |

*DutSession.* `FreshBlock` is not inductive: that the backend is in a block at `"stmt"` needs
that it was idle and clean at `"begin"`, that no reconnection falls between them
(`conn = "ok"` from the second command on, `ConnInv`), and where connect() can be running
(`SetupInv`). `IInv` is the conjunction of those with the number of times the statement
was sent. That nothing persists (`NothingPersists`) follows and is proved without a run of its own. The refinement needs `HandedInv`: a verdict `ok` or
`syntax` comes out of the last command or the statement alone. The two conditional theorems add
`ObedientInv`: the SETs that precede `setup` are in force.

*Impedance.* Stickiness needs `InFlightMatched`: the query in flight contains no gated
type that was blacklisted when it was generated, and no verdict comes in between.

*FuzzLoop.* None of the properties of `main` is inductive: they hold between rounds, or of a report, but a step is one call of one
logger. `IInv` says what each logger has counted in the middle of a round: `Announced(l)` and `Judged(l)` are the queries and
results that `l` has been told of, which depends on where `main` is and on whether `l` is still in `rest` (`Awaits`). `CountInv`
ties the three loggers to these numbers (of an error it counts all three fates, since none of them keeps `cerr_logger` from its turn), `NodesInv` and `RowsInv` compare `pqxx_logger` with `cerr_logger` also while only one of them has been told,
and `StatInv` measures how old the stat row is by the remainder of the next count. That a loop calls
each logger once, in the order of the list, is `LoopBegins`, `LoopCalls` and `LoopOver`, for each of the four lists that
the options give. `PendingInv` is what the feedback is called by (`FeedbackCalled`), `DeviceInv` the same for the device. The ends of
the run (`ExitInv`) follow from what the last step found (`BudgetInv`). The session's own steps need
`SessionInv`, as in `DutSessionProofs`; the prover cannot cite a theorem through an INSTANCE, so `SessionStep` shows again
what is needed of it. By `DeviceUsedAsSpecified` and `FeedbackCalledInOrder` every behaviour of the program is one of `DutSession` and one
of `Impedance`, so that what is proved of those modules holds of the program.

*SchemaLoad.* `StageInv` says what every query finds loaded and what its loop still has to do, `KnownInv` that it refers to
loaded types only: the asserts are what makes this inductive. `SurvivorInv` needs that an oid does not come back: what was loaded and is not in the
catalog any more was dropped, so the parameters of a routine that still exists are those read, by however many queries. `YoungInv` is why one statement does no harm: with fewer than two every type
that an object in the catalog refers to was there when `pg_type` was read, or is still to be read. `QuietInv` follows a load that nobody
disturbs query by query. `IndexInv` is about one type at a time.

*ExprTypes.* `Pair` says what the two operands can be while they are built and compared; `Call`, that
the arguments so far fit the routine chosen last; `Kept`, that both operands have the
type asked for from the start if that is concrete, so that no fix-up ever disturbs it; `Declared`, that the operands of
a comparison stay what its operator offers, which after a fix-up needs that the type it was rebuilt for was one of these.

*Production.* `RetryBudget` excepts the production on top while an exception unwinds: its
own retries have run out. It is inductive together with the type and `LimitKnown`: when
coalesce lowers its limit, what it paid under the old one is still covered. The lemma
`RetryStep` is `prod::retry` on top of a stack in which everyone has paid, and every retry of the model goes through it.

*Windows.* `window_function::allowed` walks up the parents, in the module a recursive function. That the walk exists for a
stack of any depth, and that where it ends well there is a select list of a query with only scalar expressions
between, is shown by taking a least counterexample (`SequenceLemmas!LeastNatural`, from the well-foundedness of < on Nat), which needs no induction
theorem. The invariant is then about one production at a time (`KindsKept`: no step changes the kind of one that stays).

*QueryScope.* `IInv` says of every construct how it fits the one it is in (`Fits`). `Linked`: which one that is and where it has
got to, so that nothing below the top moves on while something is built in it. `InScope`: `refs` are those of the construct around, as they are now, and
what was added since; because a subquery begins only where its query stands still, the copy never goes stale. `Old`: each alias in use was counted before, so
that a new one is not in use (`Fresh`). `Apart` and `Distinct`: what a finished join hands over is in no scope yet. Two lemmas carry the
steps: `Changed`, for a construct that changes in nothing its scope depends on, and `ReceivedStep`, for one whose scope grows. `Fail` needs `Linked`
to know that a set operation it returns to was at an attempt it was allowed. `NamesVisible` and `VisibleNamed`
follow together: by a least counterexample along the stack, `refs` is what `Outside` shows and what was added (`ScopesAreOutside`). That
the list of `GROUP BY` is one of names (`TypeCorrect`) rests on `FlattenProperties`, for lists of any length.

Model-checked only: liveness (`TestReturns`, `Recovers`, `Terminates`, `AttemptEnds`), which the prover does not
reach. Every invariant and every other action or refinement property of a passing run is stated by a theorem. All
inductive invariants were checked by TLC on the instance of the run before they were proved.

## Findings

Each has a run with a counterexample.

1. **A session can stay half set up** (`dut_half_setup`). `connect()` stores `conn` before its
   SETs; one that fails with an ERROR leaves the session in use without `statement_timeout`.
2. **A timeout is not reported as one** (`dut_cancel`). README: "`t` Query exceeded 1-second
   timeout"; `command()` throws `dut::failure` for 57014.
3. **GROUP BY names columns that are out of scope** (`group_by_scope`). The visitor that `group_by` sends through a select item
   also enters EXISTS subqueries in it and adds the keys of the window functions it meets there. The statement
   fails on the server.
4. **DDL during the load can abort the program** (`schema_assert`): a type created after
   `pg_type` was read and used by a column read later fails an assert.

Met while modelling, and visible in the models, without a run of their own: "C" is
also printed for a query that was never sent (`SymbolOf` after `DialFail`), and such a query
counts against its productions (`Impedance!FeedError` looks at no exception); a dry run with
`--max-queries=0` generates one query (`DryBudgetSpent`, which is why `ExactBudget`
says "at least one"); anyelement and anynonarray are consistent with each other, although a comment
forbids cycles; `retry()` allows `retry_limit + 1` retries (`MayRetry`); the report calls production types
BLACKLISTED that are generated on, because only types that ask `match()` are ever withheld (`Generate`); an item that
mixes columns with a window function leaves those columns out of GROUP BY (`GroupedBy`, grammar.cc:800); output columns are
named by level and position, so that those of a WITH query and of the query proper coincide (grammar.cc:209);
`set_operation` makes 101 attempts where its message says 100, and since its own count runs out before that of `prod`, the limit is never
reported to the feedback; the copy of `refs` for LATERAL is redundant, because the constructor of `scope` has copied them
(grammar.cc:302), and a subquery in FROM that is not LATERAL stays legal only because `table_ref::factory` is called for the
first item of a FROM clause alone (`WantsTableRef`).

## Not modelled

The text of names and types and the output of the tree as SQL or GraphML (`dump.cc`, `ast_logger`, `query_dumper`), which change no state; the float averages
in the report; the counters `retries`, `limited` and `failed` of the feedback, which are only printed; `random.cc`, because every throw of a die is a
nondeterministic choice here; `dut_pqxx` (nothing constructs it); the
data-modifying productions (nothing builds them) and with them the constraints of tables; `find_operator` and its index (nothing calls it);
a signal that interrupts a map insertion (undefined behaviour inside the library; the
model takes signals between steps); columns of a relation, which `QueryScope` does not tell apart.

## Plan

Done, in this order: device and contract; feedback; main loop composing both, then its start-up; schema load, with base tables and
operands; expression types; the stack of productions; scopes, set operations and grouping; the proofs named above, `SchemaLoad` and `FuzzLoop` last.

Next, the most important first:

1. Grouping sets, and names of output columns, in `QueryScope`.
2. `FreshBlock`, `BlacklistSticky` and their like as theorems of `FuzzLoop` itself: their invariants have to be shown once more over
   the instances, as `SessionInv` was.
