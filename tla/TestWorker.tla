----------------------------- MODULE TestWorker -----------------------------
(***************************************************************************)
(* The test worker of magnitude-test (worker/localTestRegistry.ts): the    *)
(* registry of test functions filled while a test file loads, and the      *)
(* 'execute' message handler that runs one test and reports to the parent *)
(* thread.                                                                 *)
(*                                                                         *)
(* The handler is an async function: every execute message starts a task  *)
(* that suspends at each await (agent.start, testFn, agent.stop,           *)
(* sendTelemetry).  Tasks of different messages interleave at those        *)
(* awaits, and each awaited call settles in an order the I/O decides.      *)
(* pc[e] is where the task of execute message e is suspended.  An external *)
(* call in MayFail may reject (or, for "setup", throw synchronously).      *)
(***************************************************************************)
EXTENDS Naturals, Sequences, FiniteSets, SequencesExt

CONSTANTS
    Ids,            \* test ids generateId can return; also ids the parent may name
    Groups,         \* test group names
    NoGroup,        \* currentGroup undefined
    Execs,          \* execute messages the parent sends
    Unset,          \* the telemetry field of an execute message left undefined
    MayFail,        \* external calls that may throw or reject
    MaxStateChanges \* bound on tracker 'stateChanged' events per execution

Calls == {"setup", "start", "testFn", "stop", "telemetry"}

VARIABLES
    testFunctions, \* ids in the testFunctions map
    currentGroup,  \* the module-level currentGroup
    pc,            \* where the task of execute message e is suspended
    target,        \* test.id of execute message e
    telemetry,     \* the telemetry field of execute message e
    status,        \* finalState.status of e ("none" before testFn settles)
    changes,       \* tracker state changes posted for e so far
    toParent       \* messages posted to the parent, in order

vars == <<testFunctions, currentGroup, pc, target, telemetry, status,
          changes, toParent>>

Pcs == {"idle", "starting", "running", "stopping", "reporting", "done"}

\* Every message carries the execution it belongs to in field exec; the
\* parent sees only the test id, exec is a history field for the properties.
Msgs ==
    [type : {"registered"}, id : Ids, group : Groups \cup {NoGroup}]
    \cup [type : {"test_state_change"}, exec : Execs, id : Ids,
          status : {"running", "passed", "failed"}]
    \cup [type : {"test_result"}, exec : Execs, id : Ids, passed : BOOLEAN]
    \cup [type : {"test_error"}, exec : Execs, id : Ids]

Post(m) == toParent' = Append(toParent, m)

PostError(e) ==
    Post([type |-> "test_error", exec |-> e, id |-> target[e]])

Init ==
    /\ testFunctions = {}
    /\ currentGroup = NoGroup
    /\ pc = [e \in Execs |-> "idle"]
    /\ target = [e \in Execs |-> CHOOSE i \in Ids : TRUE]
    /\ telemetry = [e \in Execs |-> Unset]
    /\ status = [e \in Execs |-> "none"]
    /\ changes = [e \in Execs |-> 0]
    /\ toParent = << >>

-----------------------------------------------------------------------------
(* The registry, used while the test file is imported.                     *)

\* generateId returns a fresh id; the map entry and the 'registered'
\* message with the current group happen in one synchronous call.
RegisterTest(id) ==
    /\ id \notin testFunctions
    /\ testFunctions' = testFunctions \cup {id}
    /\ Post([type |-> "registered", id |-> id, group |-> currentGroup])
    /\ UNCHANGED <<currentGroup, pc, target, telemetry, status, changes>>

SetCurrentGroup(g) ==
    /\ currentGroup' = g
    /\ UNCHANGED <<testFunctions, pc, target, telemetry, status, changes,
                   toParent>>

-----------------------------------------------------------------------------
(* The execute handler, one action per segment between awaits.             *)

\* Mutant of Execute: the unknown-id branch returns without a test_error.
ExecuteNotFoundSilent(e, id, tel) ==
    /\ pc[e] = "idle"
    /\ target' = [target EXCEPT ![e] = id]
    /\ telemetry' = [telemetry EXCEPT ![e] = tel]
    /\ IF id \notin testFunctions
       THEN pc' = [pc EXCEPT ![e] = "done"] /\ UNCHANGED toParent
       ELSE pc' = [pc EXCEPT ![e] = "starting"] /\ UNCHANGED toParent
    /\ UNCHANGED <<testFunctions, currentGroup, status, changes>>

\* Up to 'await agent.start()': look up the function (an unknown id is
\* answered with test_error), build the options and the agent, attach the
\* tracker listener, start the agent.  A throw in the synchronous setup
\* lands in the outer catch.
Execute(e, id, tel) ==
    /\ pc[e] = "idle"
    /\ target' = [target EXCEPT ![e] = id]
    /\ telemetry' = [telemetry EXCEPT ![e] = tel]
    /\ IF id \notin testFunctions
       THEN /\ Post([type |-> "test_error", exec |-> e, id |-> id])
            /\ pc' = [pc EXCEPT ![e] = "done"]
       ELSE \/ /\ pc' = [pc EXCEPT ![e] = "starting"]
               /\ UNCHANGED toParent
            \/ /\ "setup" \in MayFail
               /\ Post([type |-> "test_error", exec |-> e, id |-> id])
               /\ pc' = [pc EXCEPT ![e] = "done"]
    /\ UNCHANGED <<testFunctions, currentGroup, status, changes>>

\* agent.start() settles: on success the test function is called.
StartSettles(e) ==
    /\ pc[e] = "starting"
    /\ \/ pc' = [pc EXCEPT ![e] = "running"] /\ UNCHANGED toParent
       \/ /\ "start" \in MayFail
          /\ PostError(e)
          /\ pc' = [pc EXCEPT ![e] = "done"]
    /\ UNCHANGED <<testFunctions, currentGroup, target, telemetry, status,
                   changes>>

\* The tracker's 'stateChanged' listener, called while the agent acts.
TrackerStateChanged(e) ==
    /\ pc[e] \in {"starting", "running", "stopping"}
    /\ changes[e] < MaxStateChanges
    /\ changes' = [changes EXCEPT ![e] = @ + 1]
    /\ Post([type |-> "test_state_change", exec |-> e, id |-> target[e],
             status |-> "running"])
    /\ UNCHANGED <<testFunctions, currentGroup, pc, target, telemetry, status>>

\* Mutant of TestFnSettles: the catch branch never assigns finalState.
TestFnSettlesCatchNoState(e) ==
    /\ pc[e] = "running"
    /\ \E s \in IF "testFn" \in MayFail THEN {"passed", "none"} ELSE {"passed"} :
          status' = [status EXCEPT ![e] = s]
    /\ pc' = [pc EXCEPT ![e] = "stopping"]
    /\ UNCHANGED <<testFunctions, currentGroup, target, telemetry, changes,
                   toParent>>

\* testFn settles: the inner try/catch fixes finalState and finalResult,
\* then agent.stop() is called.
TestFnSettles(e) ==
    /\ pc[e] = "running"
    /\ \E s \in IF "testFn" \in MayFail THEN {"passed", "failed"} ELSE {"passed"} :
          status' = [status EXCEPT ![e] = s]
    /\ pc' = [pc EXCEPT ![e] = "stopping"]
    /\ UNCHANGED <<testFunctions, currentGroup, target, telemetry, changes,
                   toParent>>

\* telemetry ?? true
SendsTelemetry(e) == telemetry[e] \in {TRUE, Unset}

ResultMsg(e) ==
    [type |-> "test_result", exec |-> e, id |-> target[e],
     passed |-> status[e] = "passed"]

\* Mutant of StopSettles: the result is posted before the final state.
StopSettlesResultFirst(e) ==
    /\ pc[e] = "stopping"
    /\ toParent' = toParent \o << ResultMsg(e),
                     [type |-> "test_state_change", exec |-> e,
                      id |-> target[e], status |-> status[e]] >>
    /\ pc' = [pc EXCEPT ![e] = "done"]
    /\ UNCHANGED <<testFunctions, currentGroup, target, telemetry, status,
                   changes>>

\* agent.stop() settles: post the final state, then either await
\* sendTelemetry or post the result at once.
StopSettles(e) ==
    /\ pc[e] = "stopping"
    /\ \/ LET final == [type |-> "test_state_change", exec |-> e,
                        id |-> target[e], status |-> status[e]]
          IN IF SendsTelemetry(e)
             THEN /\ Post(final)
                  /\ pc' = [pc EXCEPT ![e] = "reporting"]
             ELSE /\ toParent' = toParent \o << final, ResultMsg(e) >>
                  /\ pc' = [pc EXCEPT ![e] = "done"]
       \/ /\ "stop" \in MayFail
          /\ PostError(e)
          /\ pc' = [pc EXCEPT ![e] = "done"]
    /\ UNCHANGED <<testFunctions, currentGroup, target, telemetry, status,
                   changes>>

\* sendTelemetry(finalState) settles.
TelemetrySettles(e) ==
    /\ pc[e] = "reporting"
    /\ \/ Post(ResultMsg(e))
       \/ "telemetry" \in MayFail /\ PostError(e)
    /\ pc' = [pc EXCEPT ![e] = "done"]
    /\ UNCHANGED <<testFunctions, currentGroup, target, telemetry, status,
                   changes>>

Next ==
    \/ \E id \in Ids : RegisterTest(id)
    \/ \E g \in Groups \cup {NoGroup} : SetCurrentGroup(g)
    \/ \E e \in Execs :
          \/ \E id \in Ids, tel \in {TRUE, FALSE, Unset} : Execute(e, id, tel)
          \/ StartSettles(e)
          \/ TrackerStateChanged(e)
          \/ TestFnSettles(e)
          \/ StopSettles(e)
          \/ TelemetrySettles(e)

Spec == Init /\ [][Next]_vars

\* Every awaited call eventually settles (the code has no timeouts, so this
\* is an assumption about the agent and the telemetry endpoint).
Fairness ==
    \A e \in Execs :
        /\ WF_vars(StartSettles(e))
        /\ WF_vars(TestFnSettles(e))
        /\ WF_vars(StopSettles(e))
        /\ WF_vars(TelemetrySettles(e))

FairSpec == Spec /\ Fairness

-----------------------------------------------------------------------------
(* Properties                                                              *)

TypeOK ==
    /\ testFunctions \subseteq Ids
    /\ currentGroup \in Groups \cup {NoGroup}
    /\ pc \in [Execs -> Pcs]
    /\ target \in [Execs -> Ids]
    /\ telemetry \in [Execs -> {TRUE, FALSE, Unset}]
    /\ status \in [Execs -> {"none", "passed", "failed"}]
    /\ changes \in [Execs -> 0..MaxStateChanges]
    /\ toParent \in Seq(Msgs)

\* The messages of execution e, in the order the parent receives them.
MsgsOf(e) == SelectSeq(toParent, LAMBDA m : "exec" \in DOMAIN m /\ m.exec = e)

IsTerminal(m) == m.type \in {"test_result", "test_error"}

IsFinal(m) == m.type = "test_state_change" /\ m.status # "running"

\* What the parent sees of one execute message: running state changes,
\* then at most one final state change, then one terminal message
\* (test_result or test_error) and nothing after it; and when a final
\* state was posted, the terminal message is a test_result that agrees
\* with it.  This is about the whole handler of localTestRegistry.ts:
\* the ordering of its posts across the awaits and the nested try/catch.
ReportConsistent ==
    \A e \in Execs :
        LET ms == MsgsOf(e) IN
        \A i, j \in 1..Len(ms) : i < j =>
            /\ ~IsTerminal(ms[i])
            /\ IsFinal(ms[i]) => ~IsFinal(ms[j]) /\ ms[j].type # "test_state_change"
            /\ IsFinal(ms[i]) /\ IsTerminal(ms[j]) =>
                  /\ ms[j].type = "test_result"
                  /\ ms[j].passed = (ms[i].status = "passed")

\* Every execute message is eventually answered with a terminal message:
\* no path through the handler returns silently.
EveryExecuteAnswered ==
    \A e \in Execs :
        pc[e] # "idle" ~> \E i \in 1..Len(MsgsOf(e)) : IsTerminal(MsgsOf(e)[i])
=============================================================================
