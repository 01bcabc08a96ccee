-------------------------- MODULE DutSessionProofs --------------------------
(***************************************************************************)
(* The safety properties of DutSession, for every bound on the faults and  *)
(* whatever the server rejects, and that the session implements the        *)
(* contract of DutContract.                                                *)
(***************************************************************************)
EXTENDS DutSession, TLAPS

-----------------------------------------------------------------------------
(* The inductive invariant, in named parts. *)

(* connect() runs inside the constructor or inside the first command of a test. *)
SetupInv ==
    /\ InSetup => conn # "null" /\ step \in {"none", "rollback"}
    /\ life = "ctor" => step = "none" /\ outcome.class = "none"
    /\ life = "ctor" /\ ~InSetup => conn = "null"
    /\ life = "live" /\ step = "none" => ~InSetup
    /\ life = "dead" => step = "none" /\ ~InSetup

(* Past its first command a test has a connection it has seen answer. *)
ConnInv ==
    /\ step \in {"begin", "stmt", "cleanup"} => conn = "ok" /\ ~InSetup
    /\ waiting => InCommand /\ conn = "ok"
    /\ InTest => outcome.class = "none"

(* What ROLLBACK and BEGIN have achieved once they are answered. *)
BlockInv ==
    /\ step = "begin" /\ Alive => backend = "idle" /\ ~dirty
    /\ step = "stmt" /\ Alive => backend = "block" /\ ~dirty
    /\ ~durable

(* How often the statement was sent, by the place in test(). *)
HandedInv ==
    /\ life = "ctor" => handed = 0
    /\ step \in {"rollback", "begin"} => handed = 0
    /\ step = "stmt" => handed = IF waiting THEN 1 ELSE 0
    /\ step = "cleanup" => handed = 1

(* TypeOK in two halves: the Boolean variables, and the others. *)
FlagsOK == waiting \in BOOLEAN /\ up \in BOOLEAN /\ dirty \in BOOLEAN /\ durable \in BOOLEAN
ValuesOK ==
    /\ conn \in {"null", "ok", "bad"}
    /\ step \in Commands \cup {"none"}
    /\ setup \in Settings \cup {"none"}
    /\ life \in {"ctor", "live", "dead"}
    /\ outcome \in [class : Classes, sqlstate : SqlStates]
    /\ handed \in {0, 1}
    /\ backend \in {"gone", "idle", "block", "failed"}
    /\ params \in SUBSET Settings
    /\ faults \in 0..MaxFaults

LEMMA TypeParts == TypeOK <=> FlagsOK /\ ValuesOK
  BY DEF TypeOK, FlagsOK, ValuesOK

Control == SetupInv /\ ConnInv /\ BlockInv /\ HandedInv /\ ConnMatchesOutcome
IInv == FlagsOK /\ ValuesOK /\ Control

(* The leaves below see the abbreviations of DutSession and the parts of the *)
(* invariant; the actions are cited where they are used.                    *)
USE MaxFaultsAssumption, ServerMayRejectAssumption
USE DEF InTest, InSetup, Idle, Alive, AtConnect, InCommand, AtStatement,
        Commands, Settings, SqlStates, ErrorStates, LostStates, Classes, Exceptions,
        Ended, Throw, Fault, FirstSetting, FirstCommand, LossNoticed, ConnAfterLoss,
        vars, client, server,
        SetupInv, ConnInv, BlockInv, HandedInv, ConnMatchesOutcome, ValuesOK, Control

-----------------------------------------------------------------------------
(* IInv holds initially and every step keeps it. *)
LEMMA InitIInv == Init => IInv
  <1> SUFFICES ASSUME Init PROVE IInv
    OBVIOUS
  <1> USE DEF Init
  <1>1. FlagsOK BY Zenon DEF FlagsOK
  <1>2. ValuesOK /\ Control BY SMT
  <1> QED BY <1>1, <1>2 DEF IInv

(* Each action assigns the flags truth values. *)
LEMMA FlagsStep == ASSUME FlagsOK, [Next]_vars PROVE FlagsOK'
  <1> USE DEF FlagsOK
  <1>1. CASE Test BY <1>1, Zenon DEF Test
  <1>2. CASE Dial BY <1>2, Zenon DEF Dial, DialOk, DialFail, DialSilent
  <1>3. CASE Send BY <1>3, Zenon DEF Send
  <1>4. CASE ReplyOk BY <1>4, Zenon DEF ReplyOk, Execute
  <1>5. ASSUME NEW s \in ErrorStates, ReplyError(s) PROVE FlagsOK' BY <1>5, Zenon DEF ReplyError
  <1>6. ASSUME NEW s \in LostStates, Lost(s) PROVE FlagsOK' BY <1>6, Zenon DEF Lost
  <1>7. CASE Environment BY <1>7, Zenon DEF Environment, Crash, Restart, Kill
  <1>8. CASE UNCHANGED vars BY <1>8, Zenon
  <1> QED BY <1>1, <1>2, <1>3, <1>4, <1>5, <1>6, <1>7, <1>8
       DEF Next, Client, Reply, ConnectionLost, Done

(* One lemma per action for the rest of the invariant. *)
LEMMA TestStep == ASSUME IInv, Test PROVE (ValuesOK /\ Control)'
  BY SMT DEF IInv, FlagsOK, Test

LEMMA DialStep == ASSUME IInv, Dial PROVE (ValuesOK /\ Control)'
  <1>1. CASE DialOk BY <1>1, SMT DEF IInv, FlagsOK, DialOk
  <1>2. CASE DialFail BY <1>2, SMT DEF IInv, FlagsOK, DialFail
  <1>3. CASE DialSilent BY <1>3, SMT DEF IInv, FlagsOK, DialSilent
  <1> QED BY <1>1, <1>2, <1>3 DEF Dial

LEMMA SendStep == ASSUME IInv, Send PROVE (ValuesOK /\ Control)'
  BY SMT DEF IInv, FlagsOK, Send

LEMMA ReplyOkStep == ASSUME IInv, ReplyOk PROVE (ValuesOK /\ Control)'
  <1> USE DEF IInv, FlagsOK
  <1>1. /\ waiting /\ Alive /\ InCommand /\ conn = "ok" /\ conn' = conn
        /\ handed' = handed /\ waiting' = FALSE /\ faults' = faults
    BY SMT DEF ReplyOk
  <1>2. CASE InSetup
    <2>1. params' = params \cup {setup} /\ UNCHANGED <<backend, dirty, durable>>
      BY <1>2, SMT DEF ReplyOk, Execute
    <2>2. setup' \in {"messages", "appname", "none"} /\ (setup' = "none" <=> setup = "appname")
      BY <1>2, SMT DEF ReplyOk, AfterSetting
    <2>3. /\ step' = step /\ outcome' = outcome
          /\ life' = IF setup = "appname" THEN "live" ELSE life
      BY <1>2, SMT DEF ReplyOk
    <2> QED BY <1>1, <1>2, <2>1, <2>2, <2>3, SMT
  <1>3. CASE ~InSetup
    <2>1. setup' = setup /\ life' = life
      BY <1>3, SMT DEF ReplyOk
    <2>2. params' \in SUBSET Settings
      BY <1>3, Zenon DEF ReplyOk, Execute
    <2>3. CASE step = "rollback"
      <3>1. step' = "begin" /\ outcome' = outcome
        BY <1>3, <2>3, SMT DEF ReplyOk, AfterCommand
      <3>2. backend' = "idle" /\ ~dirty' /\ durable' = durable
        BY <1>3, <2>3, SMT DEF ReplyOk, Execute
      <3> QED BY <1>1, <1>3, <2>1, <2>2, <2>3, <3>1, <3>2, SMT
    <2>4. CASE step = "begin"
      <3>1. step' = "stmt" /\ outcome' = outcome
        BY <1>3, <2>4, SMT DEF ReplyOk, AfterCommand
      <3>2. backend' = "block" /\ dirty' = dirty /\ durable' = durable
        BY <1>3, <2>4, SMT DEF ReplyOk, Execute
      <3> QED BY <1>1, <1>3, <2>1, <2>2, <2>4, <3>1, <3>2, SMT
    <2>5. CASE step = "stmt"
      <3>1. step' = "cleanup" /\ outcome' = outcome
        BY <1>3, <2>5, SMT DEF ReplyOk, AfterCommand
      <3>2. backend' = backend /\ durable' = durable
        BY <1>3, <2>5, SMT DEF ReplyOk, Execute
      <3> QED BY <1>1, <1>3, <2>1, <2>2, <2>5, <3>1, <3>2, SMT
    <2>6. CASE step = "cleanup"
      <3>1. step' = "none" /\ outcome' = Ended("ok", "none")
        BY <1>3, <2>6, SMT DEF ReplyOk, AfterCommand
      <3>2. backend' = "idle" /\ ~dirty' /\ durable' = durable
        BY <1>3, <2>6, SMT DEF ReplyOk, Execute
      <3>3. ValuesOK' BY <1>1, <1>3, <2>1, <2>2, <2>6, <3>1, <3>2, SMT
      <3>4. (SetupInv /\ ConnInv)' BY <1>1, <1>3, <2>1, <2>2, <2>6, <3>1, <3>2, SMT
      <3>5. (BlockInv /\ HandedInv)' BY <1>1, <1>3, <2>1, <2>2, <2>6, <3>1, <3>2, SMT
      <3>6. ConnMatchesOutcome' BY <1>1, <1>3, <2>1, <2>2, <2>6, <3>1, <3>2, SMT
      <3> QED BY <3>3, <3>4, <3>5, <3>6
    <2> QED BY <1>1, <1>3, <2>3, <2>4, <2>5, <2>6, SMT
  <1> QED BY <1>2, <1>3

LEMMA ReplyErrorStep == ASSUME IInv, NEW s \in ErrorStates, ReplyError(s) PROVE (ValuesOK /\ Control)'
  BY SMT DEF IInv, FlagsOK, ReplyError, ClassOf

LEMMA LostStep == ASSUME IInv, NEW s \in LostStates, Lost(s) PROVE (ValuesOK /\ Control)'
  BY SMT DEF IInv, FlagsOK, Lost

LEMMA EnvironmentStep == ASSUME IInv, Environment PROVE (ValuesOK /\ Control)'
  <1>1. CASE Crash BY <1>1, SMT DEF IInv, FlagsOK, Crash
  <1>2. CASE Restart BY <1>2, SMT DEF IInv, FlagsOK, Restart
  <1>3. CASE Kill BY <1>3, SMT DEF IInv, FlagsOK, Kill
  <1> QED BY <1>1, <1>2, <1>3 DEF Environment

LEMMA NextIInv == IInv /\ [Next]_vars => IInv'
  <1> SUFFICES ASSUME IInv, [Next]_vars PROVE IInv'
    OBVIOUS
  <1>1. FlagsOK'
    BY FlagsStep DEF IInv
  <1>2. (ValuesOK /\ Control)'
    <2>1. CASE Test BY <2>1, TestStep
    <2>2. CASE Client
      BY <2>2, DialStep, SendStep, ReplyOkStep, ReplyErrorStep, LostStep
      DEF Client, Reply, ConnectionLost
    <2>3. CASE Environment BY <2>3, EnvironmentStep
    <2>4. CASE UNCHANGED vars BY <2>4, SMT DEF IInv
    <2> QED BY <2>1, <2>2, <2>3, <2>4 DEF Next, Done
  <1> QED BY <1>1, <1>2 DEF IInv

LEMMA InvariantIInv == Spec => []IInv
  BY InitIInv, NextIInv, PTL DEF Spec

(* Every variable keeps its type; above all, no test() sends its statement  *)
(* to the server a second time.                                              *)
THEOREM TypeCorrect == Spec => []TypeOK
  <1>1. IInv => TypeOK BY TypeParts DEF IInv
  <1> QED BY <1>1, InvariantIInv, PTL

(* The generated statement always meets a fresh transaction block. *)
THEOREM StatementInFreshBlock == Spec => []FreshBlock
  <1>1. IInv => FreshBlock BY SMT DEF IInv, FreshBlock
  <1> QED BY <1>1, InvariantIInv, PTL

(* No generated statement ever takes effect outside a block. *)
THEOREM NothingEverPersists == Spec => []NothingPersists
  <1>1. IInv => NothingPersists BY DEF IInv, NothingPersists
  <1> QED BY <1>1, InvariantIInv, PTL

(* The exception test() ended with tells the truth about the connection. *)
THEOREM OutcomeTellsConnection == Spec => []ConnMatchesOutcome
  <1>1. IInv => ConnMatchesOutcome BY DEF IInv
  <1> QED BY <1>1, InvariantIInv, PTL

-----------------------------------------------------------------------------
(* With a server that rejects no control command: two more invariants. *)

(* A session past its first SET has the statement_timeout. *)
TimeoutInForce == conn = "ok" /\ setup # "timeout" => "timeout" \in params

ObedientInv == TimeoutInForce /\ NoStatementSkipped

LEMMA ObedientStep ==
  ASSUME ~ServerMayReject, IInv, ObedientInv, [Next]_vars
  PROVE  ObedientInv'
  <1> USE DEF ObedientInv, TimeoutInForce, NoStatementSkipped, IInv, FlagsOK
  <1>1. CASE Test BY <1>1, SMT DEF Test
  <1>2. CASE DialOk BY <1>2, SMT DEF DialOk
  <1>3. CASE DialFail BY <1>3, SMT DEF DialFail
  <1>4. CASE DialSilent BY <1>4, SMT DEF DialSilent
  <1>5. CASE Send BY <1>5, SMT DEF Send
  <1>6. CASE ReplyOk BY <1>6, SMT DEF ReplyOk, Execute, AfterCommand, AfterSetting
  <1>7. ASSUME NEW s \in ErrorStates, ReplyError(s) PROVE ObedientInv'
    BY <1>7, SMT DEF ReplyError, ClassOf
  <1>8. ASSUME NEW s \in LostStates, Lost(s) PROVE ObedientInv'
    BY <1>8, SMT DEF Lost
  <1>9. CASE Environment BY <1>9, SMT DEF Environment, Crash, Restart, Kill
  <1>10. CASE UNCHANGED vars BY <1>10, SMT
  <1> QED
    BY <1>1, <1>2, <1>3, <1>4, <1>5, <1>6, <1>7, <1>8, <1>9, <1>10
    DEF Next, Client, Dial, Reply, ConnectionLost, Done

LEMMA ObedientInvariant == ASSUME ~ServerMayReject PROVE Spec => []ObedientInv
  <1>1. Init => ObedientInv
    BY SMT DEF Init, ObedientInv, TimeoutInForce, NoStatementSkipped
  <1>2. IInv /\ ObedientInv /\ [Next]_vars => ObedientInv'
    BY ObedientStep
  <1> QED BY <1>1, <1>2, InvariantIInv, PTL DEF Spec

(* Every generated statement runs under the statement_timeout. *)
THEOREM TimeoutAlwaysSet == ASSUME ~ServerMayReject PROVE Spec => []StatementTimeoutSet
  <1>1. IInv /\ ObedientInv => StatementTimeoutSet
    BY SMT DEF IInv, ObedientInv, TimeoutInForce, StatementTimeoutSet
  <1> QED BY <1>1, InvariantIInv, ObedientInvariant, PTL

(* No statement is skipped because of what an earlier one left behind. *)
THEOREM EveryTestReachesServer == ASSUME ~ServerMayReject PROVE Spec => []NoStatementSkipped
  <1>1. ObedientInv => NoStatementSkipped BY DEF ObedientInv
  <1> QED BY <1>1, ObedientInvariant, PTL

-----------------------------------------------------------------------------
(* Refinement: a step of the session is a step of the contract or a stutter. *)

LEMMA RefineInit == Init => Contract!Init
  BY SMT DEF Init, Contract!Init, Phase

LEMMA RefineStep == IInv /\ [Next]_vars => [Contract!Next]_(Contract!vars)
  <1> SUFFICES ASSUME IInv, [Next]_vars PROVE [Contract!Next]_(Contract!vars)
    OBVIOUS
  <1> USE DEF IInv, Phase, Contract!Next, Contract!vars
  <1>1. CASE Test BY <1>1, SMT DEF Test, Contract!Test
  <1>2. CASE DialOk BY <1>2, SMT DEF DialOk
  <1>3. CASE DialFail
    BY <1>3, SMT DEF DialFail, Contract!Construct, Contract!Return, Contract!Exceptions
  <1>4. CASE DialSilent BY <1>4, SMT DEF DialSilent
  <1>5. CASE Send BY <1>5, SMT DEF Send, Contract!HandOver
  <1>6. CASE ReplyOk
    BY <1>6, SMT DEF ReplyOk, Execute, AfterCommand, AfterSetting, Contract!Construct, Contract!Return
  <1>7. ASSUME NEW s \in ErrorStates, ReplyError(s) PROVE [Contract!Next]_(Contract!vars)
    BY <1>7, SMT DEF ReplyError, ClassOf, Contract!Construct, Contract!Return, Contract!Exceptions
  <1>8. ASSUME NEW s \in LostStates, Lost(s) PROVE [Contract!Next]_(Contract!vars)
    BY <1>8, SMT DEF Lost, Contract!Construct, Contract!Return, Contract!Exceptions
  <1>9. CASE Environment BY <1>9, SMT DEF Environment, Crash, Restart, Kill
  <1>10. CASE UNCHANGED vars BY <1>10, SMT
  <1> QED
    BY <1>1, <1>2, <1>3, <1>4, <1>5, <1>6, <1>7, <1>8, <1>9, <1>10
    DEF Next, Client, Dial, Reply, ConnectionLost, Done

(* dut_libpq keeps the contract of a device under test. *)
THEOREM SessionImplementsContract == Spec => ImplementsContract
  BY RefineInit, RefineStep, InvariantIInv, PTL DEF Spec, ImplementsContract, Contract!Spec
=============================================================================
